---- MODULE Spec2Model ----
(***************************************************************************)
(* HAMPOD2026: the duplex packet transport between the Firmware process    *)
(* (audio_firmware.c, keypad_firmware.c) and the Software process          *)
(* (Software2/src/comm.c), and the concurrency disciplines built on it.    *)
(*                                                                         *)
(* SpecFw  : Firmware audio module, I/O thread and worker thread.          *)
(* SpecRQ  : one ResponseQueue of comm.c as a data structure.              *)
(* SpecWait: response_queue_pop_timeout against the Router's push and      *)
(*           comm_stop_router, with a clock.                               *)
(* SpecSw  : the Software process of main.c after the handshake: keypad    *)
(*           thread, speech thread and Router on the two pipes.            *)
(* SpecCommTest: the program of tests/test_comm_write.c after the          *)
(*           handshake: main thread and Router on the two pipes.           *)
(* SpecHandshake: main() of main.c from comm_wait_ready on.                *)
(* SpecCodec: one packet written to a byte stream and read back.           *)
(* SpecKeys: the key classifier of keypad_thread_func, sample by sample.   *)
(* SpecHalKeypad: hal_keypad_read on the events of the USB keypad.         *)
(* SpecPoller: the polling loop of keypad_thread_func and its handling of  *)
(*             timeouts and errors of comm_read_keypad.                    *)
(* SpecSpeech: queue_push and speech_clear_queue of the speech queue       *)
(*             against the speech thread.                                  *)
(* SpecConfig: the configuration, its undo history and Config Mode.        *)
(* SpecPlayback: hal_audio_play_file against the interrupt and beep        *)
(*               bypasses of the I/O thread.                               *)
(* SpecRouter: keypad thread and Router of main.c against a Firmware that  *)
(*           can end and close its pipe.                                   *)
(***************************************************************************)
EXTENDS Integers, Sequences, FiniteSets, TLC

\* ------------------------------------------------------------------------
\* Bounds of the model
\* ------------------------------------------------------------------------
\* Number of packets the Software side writes to the Firmware input pipe.
MaxPackets == 3
\* Capacity of the PendingRequestQueue (implementation-chosen in the design).
QueueCapacity == 2
\* Number of packets the Router pushes into one ResponseQueue in SpecRQ.
MaxPush == 19

\* The timeout_ms of a wait, in clock ticks.
TimeoutTicks == 2
\* The clock stops at MaxTime.
MaxTime == 4
\* Number of packets the Router pushes in SpecWait.
MaxWaitPush == 2

\* Number of packets the keypad and speech threads send between them.
MaxSends == 3
\* Number of comm_send_audio_sync calls of test_comm_write.c.
MaxSyncCalls == 3

\* packet_tag is an unsigned short
TagModulus == 65536

\* Capacity of the speech queue (speech_set_max_queue_size).
SpeechCapacity == 2

\* queue_push calls the callers make.
MaxPushCalls == 4

\* Polls the keypad thread issues.
\* Setter calls in one run.
MaxChanges == 11

\* Config Mode sessions in one run.
MaxSessions == 2

\* config.h: #define CONFIG_UNDO_DEPTH 10
CONFIG_UNDO_DEPTH == 10

\* config.h: #define CONFIG_DEFAULT_VOLUME 25
CONFIG_DEFAULT_VOLUME == 25

MaxPolls == 6

\* keypad.c: if (consecutive_errors >= 3) break
KEYPAD_ERROR_LIMIT == 3

\* comm.h: #define COMM_KEYPAD_TIMEOUT_MS 5000
COMM_KEYPAD_TIMEOUT_MS == 5000

\* hal_audio_play_file calls the worker makes.
MaxPlays == 2

\* Interrupt and beep packets the I/O thread handles.
MaxIoOps == 3

\* Chunks in the file played.
MaxChunks == 4

\* Physical key presses on the USB keypad.
MaxPresses == 2

\* The clock of the USB keypad HAL stops here, in milliseconds.
MaxHalMs == 80

\* One step of the clock of the USB keypad HAL, in milliseconds.
HalTickMs == 10

\* hal_keypad_usb.c: #define KEYPAD_PHONE_LAYOUT 0
KEYPAD_PHONE_LAYOUT == 0

\* hal_keypad_usb.c: KP0_DISAMBIG_WINDOW_US 30000, in milliseconds
KP0_DISAMBIG_WINDOW_MS == 30

\* hal_keypad_usb.c: if (time_diff < 50000), in milliseconds
KP0_SUPPRESS_MS == 50

\* hal_keypad_usb.c: the 00 key's second pulse (measured: 16-24ms)
KP0_PULSE_GAP_MS == 20

\* Number of samples the keypad thread takes.
MaxSamples == 19

\* keypad.c: #define DEFAULT_HOLD_THRESHOLD_MS 500
DEFAULT_HOLD_THRESHOLD_MS == 500

\* keypad.c: #define DEFAULT_POLL_INTERVAL_MS 50
DEFAULT_POLL_INTERVAL_MS == 50

\* keypad.c: static const int RELEASE_THRESHOLD = 6
RELEASE_THRESHOLD == 6

\* comm.h: #define COMM_MAX_DATA_LEN 256
COMM_MAX_DATA_LEN == 256

\* sizeof(PacketType): an enum, 4 bytes
PacketTypeSize == 4

\* comm.h: #define COMM_RESPONSE_QUEUE_SIZE 16
COMM_RESPONSE_QUEUE_SIZE == 16

VARIABLES
  \* ---- Firmware audio module (audio_firmware.c) ----
  queue,                  \* Packet_queue *input_queue
  audio_queue_lock,       \* pthread_mutex_t: "free" or the holder
  audio_queue_available,  \* pthread_mutex_t: "free" or the holder
  ioPc,                   \* position of audio_io_thread
  ioPkt,                  \* type/size/tag/buffer locals of audio_io_thread
  queue_empty,            \* local int queue_empty of audio_io_thread
  ack_result,             \* ack_result / beep_result of audio_io_thread
  wPc,                    \* position of the worker loop of audio_process
  received_packet,        \* Inst_packet *received_packet of audio_process
  system_result,          \* int system_result of audio_process
  audio_interrupted,      \* hal_audio_usb.c: static volatile int
  tts_interrupted,        \* hal_tts_piper.c: static volatile int
  outPipe,                \* what was written to output_pipe_fd, in order
  nextTag,                \* tag of the next packet Software writes
  \* ---- history of the Firmware run (observers only) ----
  pushed,                 \* tags enqueued, in order
  popped,                 \* packets dequeued by the worker, in order
  flushed,                \* tags discarded by clear_queue
  dispatched,             \* tags the worker dispatched to a hardware op
  received,               \* tags of normal AUDIO requests read by the I/O thread
  pendingAtIntr,          \* interrupt tag -> tags queued when it was read
  \* ---- Software response queue (comm.c) ----
  keypad_queue,           \* static ResponseQueue keypad_queue
  arrived,                \* history: packets pushed into keypad_queue, in order
  taken,                  \* history: packets popped from keypad_queue, in order
  router_running,         \* static volatile bool router_running
  qMutex,                 \* keypad_queue.mutex: "free" or the holder
  cPc,                    \* position of each caller of response_queue_pop_timeout
  cDeadline,              \* struct timespec timeout of each caller
  cResult,                \* what the call returned
  cCallTime,              \* history: when the call was made
  cReturnTime,            \* history: when the call returned
  now,                    \* the clock (CLOCK_REALTIME), in ticks
  stopPc,                 \* position of the caller of comm_stop_router
  caughtByStop,           \* history: callers inside the wait at the broadcast
  toFirmware,             \* fields written to fd_firmware_in, not yet read
  fromFirmware,           \* fields on fd_firmware_out, not yet read
  fwPending,              \* the response whose data the Firmware has yet to write
  packet_tag,             \* static unsigned short packet_tag
  sPc,                    \* position of each Software thread that sends
  sPkt,                   \* the CommPacket each of them is sending
  sCalls,                 \* number of requests each of them has made
  rdPc,                   \* position of each reader inside comm_read_packet
  rdFields,               \* the fields each reader has read of its packet
  audio_queue,            \* static ResponseQueue audio_queue
  config_queue,           \* static ResponseQueue config_queue
  inboundReaders,         \* history: threads that read fd_firmware_out while
                          \* the Router ran
  sent,                   \* history: the requests comm_send_packet has
                          \* written whole, in order
  inboundClosed,          \* the Firmware has closed its end of Firmware_o
  rdBroken,               \* history: the reader's decode failed after it
                          \* had consumed part of a frame
  hsPc,                   \* position of main() in its start-up sequence
  hsPacket,               \* CommPacket packet of comm_wait_ready
  \* ---- the packet codec on one byte stream ----
  cdPacket,               \* the packet handed to the writer
  cdStream,               \* the bytes on the pipe
  cdPhase,                \* "start", "written", "read"
  cdReader,               \* which reader read the stream
  cdResult,               \* what the reader made of it
  \* ---- the key classifier of keypad_thread_func (keypad.c) ----
  last_key,               \* static char last_key
  kElapsed,               \* the clock, measured from key_press_time
  hold_event_fired,       \* static bool hold_event_fired
  no_key_count,           \* int no_key_count
  kPolls,                 \* number of samples taken
  \* ---- history of the physical interaction under way (observers only) ----
  gKey,                   \* its key, "-" when there is none
  gEmpty,                 \* empty samples in a row since its key was last seen
  gSamples,               \* samples that showed its key
  gPure,                  \* no empty sample came between two of those
  gOnTime,                \* its samples were one poll interval apart
  gTaps,                  \* Tap events fired during it
  gHolds,                 \* Hold events fired during it
  gStray,                 \* events fired outside any interaction
  gGap,                   \* longest run of empty samples between two of its samples
  gSince,                 \* time since its first sample
  gLast,                  \* the interaction the last sample ended
  \* ---- the USB keypad HAL (hal_keypad_usb.c) ----
  hkBuf,                  \* input events waiting in the device buffer
  hkNow,                  \* the clock, in milliseconds
  debounce_state,         \* static struct debounce_state
  hold_state,             \* static struct hold_state
  hkOut,                  \* what hal_keypad_read has reported (observer)
  hkPresses,              \* physical presses so far
  \* ---- the playback state of hal_audio_usb.c ----
  audio_playing,          \* static volatile int audio_playing
  pcm_state,              \* state of the sink pcm_handle
  pbPc,                   \* where the worker and the I/O thread are in the HAL
  pbPlays,                \* hal_audio_play_file calls finished
  pbIoOps,                \* interrupt and beep packets handled
  pbChunks,               \* chunks left in the file being played
  pbResult,               \* what the last hal_audio_play_file returned
  pbIntrSeen,             \* hal_audio_interrupt ran during this play (observer)
  pbAfterIntr,            \* chunks written after that (observer)
  pbDropSincePrime,       \* snd_pcm_drop ran since the last snd_pcm_prepare (observer)
  pbPrimedWithoutDrop,    \* a clear re-primed a sink that was not dropped (observer)
  pbSinkCalls,            \* prepare/drop calls since the last beep, -1 if none (observer)
  pbBetweenBeeps,         \* that count when the next beep was written (observer)
  \* ---- the polling loop of keypad_thread_func (keypad.c) ----
  pollPc,                 \* where the keypad thread is in a poll
  consecutive_errors,     \* int consecutive_errors
  chanClosed,             \* which direction of the channel is closed, if any
  pollCount,              \* polls issued
  pollsAfterClose,        \* polls issued after the channel closed (observer)
  pollEvents,             \* key events fired (observer)
  pollLog,                \* LOG_ERROR lines written (observer)
  pollLast,               \* how the last poll ended (observer)
  \* ---- the speech queue (speech.c) ----
  spCount,                \* queue.count
  spRunning,              \* static volatile bool running
  spMutex,                \* owner of queue.mutex
  pushPc,                 \* where the caller is in queue_push
  pushCalls,              \* queue_push calls made
  pushResult,             \* what the last queue_push returned
  pushWaited,             \* the caller waited inside this queue_push (observer)
  spThreadPc,             \* where the speech thread is
  spItems,                \* queue.items from head to tail, as call numbers
  spItem,                 \* SpeechItem item of speech_thread_func, 0 if none
  spSent,                 \* items handed to comm_send_audio (observer)
  spCleared,              \* items not yet sent when speech_clear_queue was
                          \* called (observer)
  \* ---- the configuration and Config Mode (config.c, config_mode.c) ----
  g_config,               \* static HampodConfig g_config
  g_history,              \* static ConfigHistory g_history
  g_state,                \* static ConfigModeState g_state
  g_undo_depth_on_entry,  \* static int g_undo_depth_on_entry
  cfgAtEntry,             \* g_config at config_mode_enter (observer)
  cfgChanges,             \* setter calls so far
  cfgSessions,            \* Config Mode sessions so far
  cfgLast                 \* the last Config Mode operation (observer)

fwVars == <<queue, audio_queue_lock, audio_queue_available, ioPc, ioPkt,
            queue_empty, ack_result, wPc, received_packet, system_result,
            audio_interrupted, tts_interrupted, outPipe, nextTag,
            pushed, popped, flushed, dispatched, received, pendingAtIntr>>

rqVars == <<keypad_queue, arrived, taken>>

waitVars == <<router_running, qMutex, cPc, cDeadline, cResult, cCallTime,
              cReturnTime, now, stopPc, caughtByStop>>

\* The failure state of the inbound pipe.
failVars == <<inboundClosed, rdBroken>>

commVars == <<toFirmware, fromFirmware, fwPending, packet_tag, sPc, sPkt, sCalls, rdPc,
              rdFields, audio_queue, config_queue, inboundReaders, sent, failVars>>

\* The start-up sequence of main().
hsVars == <<hsPc, hsPacket>>

codecVars == <<cdPacket, cdStream, cdPhase, cdReader, cdResult>>

keyVars == <<last_key, kElapsed, hold_event_fired, no_key_count, kPolls,
             gKey, gEmpty, gSamples, gPure, gOnTime, gTaps, gHolds, gStray,
             gGap, gSince, gLast>>

halKeyVars == <<hkBuf, hkNow, debounce_state, hold_state, hkOut, hkPresses>>

\* The variables of the parts added after the codec and the classifier.
pbVars == <<audio_playing, pcm_state, pbPc, pbPlays, pbIoOps, pbChunks,
            pbResult, pbIntrSeen, pbAfterIntr, pbDropSincePrime,
            pbPrimedWithoutDrop, pbSinkCalls, pbBetweenBeeps>>

pollVars == <<pollPc, consecutive_errors, chanClosed, pollCount,
              pollsAfterClose, pollEvents, pollLog, pollLast>>

speechVars == <<spCount, spRunning, spMutex, pushPc, pushCalls, pushResult,
                pushWaited, spThreadPc, spItems, spItem, spSent, spCleared>>

cfgVars == <<g_config, g_history, g_state, g_undo_depth_on_entry, cfgAtEntry,
             cfgChanges, cfgSessions, cfgLast>>

moreVars == <<halKeyVars, pbVars, pollVars, speechVars, cfgVars>>

\* The variables of the parts that stand apart from the transport.
extVars == <<codecVars, keyVars, moreVars>>

vars == <<fwVars, rqVars, waitVars, commVars, hsVars, extVars>>

\* Variables outside the codec.
nonCodec == <<fwVars, rqVars, waitVars, commVars, hsVars, keyVars, moreVars>>

\* Variables outside the key classifier.
nonKey == <<fwVars, rqVars, waitVars, commVars, hsVars, codecVars, moreVars>>

\* Variables outside the USB keypad HAL.
nonHalKey == <<fwVars, rqVars, waitVars, commVars, hsVars, codecVars, keyVars,
               pbVars, pollVars, speechVars, cfgVars>>

\* Variables outside the speech queue.
nonSpeech == <<fwVars, rqVars, waitVars, commVars, hsVars, codecVars, keyVars,
               halKeyVars, pbVars, pollVars, cfgVars>>

\* Variables outside the configuration.
nonConfig == <<fwVars, rqVars, waitVars, commVars, hsVars, codecVars, keyVars,
               halKeyVars, pbVars, pollVars, speechVars>>

\* Variables outside the polling loop and the classifier it feeds.
nonPoller == <<fwVars, rqVars, waitVars, commVars, hsVars, codecVars,
               halKeyVars, pbVars, speechVars, cfgVars>>

\* Variables outside the playback state; audio_interrupted and
\* tts_interrupted belong to it.
nonPlayback == <<queue, audio_queue_lock, audio_queue_available, ioPc, ioPkt,
                 queue_empty, ack_result, wPc, received_packet, system_result,
                 outPipe, nextTag, pushed, popped, flushed, dispatched,
                 received, pendingAtIntr, rqVars, waitVars, commVars, hsVars,
                 codecVars, keyVars, halKeyVars, pollVars, speechVars,
                 cfgVars>>

NoPacket == [type |-> "NONE", sub |-> "-", tag |-> 0]

\* ------------------------------------------------------------------------
\* Helpers on sequences
\* ------------------------------------------------------------------------
Range(s) == {s[i] : i \in 1..Len(s)}

IsPrefix(s, t) == Len(s) <= Len(t) /\ \A i \in 1..Len(s) : s[i] = t[i]

Tags(q) == {q[i].tag : i \in 1..Len(q)}

TagSeq(q) == [i \in 1..Len(q) |-> q[i].tag]

\* ------------------------------------------------------------------------
\* PendingRequestQueue (Firmware/hampod_queue.h)
\* ------------------------------------------------------------------------
\* is_empty(queue)
is_empty(q) == Len(q) = 0

\* enqueue(queue, packet): FIFO, appended at the tail
enqueue(q, pkt) == Append(q, pkt)

\* A push into a full queue blocks the producer until there is room.
enqueue_ready(q) == Len(q) < QueueCapacity

\* dequeue(queue): the packet at the head is removed and returned
dequeue_packet(q) == Head(q)

dequeue_rest(q) == Tail(q)

\* clear_queue(queue): every pending packet is discarded
clear_queue(q) == << >>

\* ------------------------------------------------------------------------
\* HAL flags (hal_audio_usb.c, hal_tts_piper.c)
\* ------------------------------------------------------------------------
\* hal_audio_interrupt(): audio_interrupted = 1 (and snd_pcm_drop)
hal_audio_interrupt == TRUE

\* hal_audio_clear_interrupt(): audio_interrupted = 0
hal_audio_clear_interrupt == FALSE

\* hal_tts_interrupt(): tts_interrupted = 1; hal_audio_interrupt()
hal_tts_interrupt == TRUE

\* ------------------------------------------------------------------------
\* Packets the Software side may write to the audio input pipe.
\* sub is payload byte 0: 'd' speak, 'i' interrupt, 'b' beep, 'x' a byte the
\* worker does not recognise. A KEYPAD packet is of a type the audio module
\* does not support.
\* ------------------------------------------------------------------------
InputKinds == { <<"AUDIO", "d">>, <<"AUDIO", "x">>, <<"AUDIO", "i">>,
                <<"AUDIO", "b">>, <<"KEYPAD", "r">> }

\* Results a hardware operation can return (0 success, -1 failure).
HalResults == {0, -1}

\* IoClassify with the unrecognised type bytes skipped instead of queued.
IoClassify_skipUnknown(pkt) ==
  IF pkt.type # "AUDIO" THEN "top"
  ELSE IF pkt.sub = "i" THEN "intr"
  ELSE IF pkt.sub = "b" THEN "beep"
  ELSE IF pkt.sub = "d" THEN "enqueue"
  ELSE "top"

\* IoClassify with a beep packet sent down the interrupt bypass.
IoClassify_beepFlushes(pkt) ==
  IF pkt.type # "AUDIO" THEN "top"
  ELSE IF pkt.sub \in {"i", "b"} THEN "intr"
  ELSE "enqueue"

\* Classification of a packet read by audio_io_thread.
IoClassify(pkt) ==
  IF pkt.type # "AUDIO" THEN "top"
  ELSE IF pkt.sub = "i" THEN "intr"
  ELSE IF pkt.sub = "b" THEN "beep"
  ELSE "enqueue"

\* WorkerResponseTag with the tag of the response left at 0.
WorkerResponseTag_zero(pkt) == 0

\* The tag the worker puts in its response: packet_tag = received_packet->tag
WorkerResponseTag(pkt) == pkt.tag

\* IoFlushedQueue with only the head discarded.
IoFlushedQueue_headOnly(q) == IF Len(q) = 0 THEN q ELSE Tail(q)

\* The I/O thread's flush under audio_queue_lock.
IoFlushedQueue(q) == clear_queue(q)

\* WorkerUnrecognizedResult with success reported.
WorkerUnrecognizedResult_ok(pkt) == 0

\* The result of the worker's dispatch when the audio type byte of the
\* packet is none it knows (the final else branch): system_result = -1.
WorkerUnrecognizedResult(pkt) == -1

\* ------------------------------------------------------------------------
\* Init
\* ------------------------------------------------------------------------
InitFw ==
  /\ queue = << >>
  /\ audio_queue_lock = "free"
  /\ audio_queue_available = "free"
  /\ ioPc = "top"
  /\ ioPkt = NoPacket
  /\ queue_empty = FALSE
  /\ ack_result = 0
  /\ wPc = "lockAvail"
  /\ received_packet = NoPacket
  /\ system_result = 0
  /\ audio_interrupted = FALSE
  /\ tts_interrupted = FALSE
  /\ outPipe = << >>
  /\ nextTag = 0
  /\ pushed = << >>
  /\ popped = << >>
  /\ flushed = {}
  /\ dispatched = {}
  /\ received = {}
  /\ pendingAtIntr = << >>

\* Variables outside the Firmware audio module.
nonFw == <<rqVars, waitVars, commVars, hsVars, extVars>>

\* ------------------------------------------------------------------------
\* audio_io_thread
\* ------------------------------------------------------------------------
ioHist == <<pushed, flushed, received, pendingAtIntr>>
wState == <<wPc, received_packet, system_result, popped, dispatched>>

\* while (audio_running) { lock; queue_empty = is_empty(queue); unlock; ...
IoLoopTop ==
  /\ ioPc = "top"
  /\ audio_queue_lock = "free"
  /\ queue_empty' = is_empty(queue)
  /\ ioPc' = IF is_empty(queue) THEN "lockAvail" ELSE "read"
  /\ UNCHANGED <<queue, audio_queue_lock, audio_queue_available, ioPkt,
                 ack_result, audio_interrupted, tts_interrupted, outPipe,
                 nextTag, ioHist, wState, nonFw>>

\* if (queue_empty) pthread_mutex_lock(&audio_queue_available);
IoLockAvailable ==
  /\ ioPc = "lockAvail"
  /\ audio_queue_available = "free"
  /\ audio_queue_available' = "io"
  /\ ioPc' = "read"
  /\ UNCHANGED <<queue, audio_queue_lock, ioPkt, queue_empty, ack_result,
                 audio_interrupted, tts_interrupted, outPipe, nextTag,
                 ioHist, wState, nonFw>>

\* The four read() calls of one packet, then the classification.
IoReadPacket ==
  /\ ioPc = "read"
  /\ nextTag < MaxPackets
  /\ \E k \in InputKinds :
       LET pkt == [type |-> k[1], sub |-> k[2], tag |-> nextTag] IN
       /\ ioPkt' = pkt
       /\ ioPc' = IoClassify(pkt)
       /\ received' = IF pkt.type = "AUDIO" /\ pkt.sub \notin {"i", "b"}
                      THEN received \cup {pkt.tag} ELSE received
       /\ pendingAtIntr' = IF pkt.type = "AUDIO" /\ pkt.sub = "i"
                           THEN Append(pendingAtIntr,
                                       [intr |-> pkt.tag, pending |-> Tags(queue)])
                           ELSE pendingAtIntr
  /\ nextTag' = nextTag + 1
  /\ UNCHANGED <<queue, audio_queue_lock, audio_queue_available, queue_empty,
                 ack_result, audio_interrupted, tts_interrupted, outPipe,
                 pushed, flushed, wState, nonFw>>

\* One of the four read() calls returns <= 0 (pipe closed or read error):
\* break, and the thread returns with whatever it holds.
IoReadFails ==
  /\ ioPc = "read"
  /\ ioPc' = "exited"
  /\ UNCHANGED <<queue, audio_queue_lock, audio_queue_available, ioPkt,
                 queue_empty, ack_result, audio_interrupted, tts_interrupted,
                 outPipe, nextTag, ioHist, wState, nonFw>>

\* INTERRUPT BYPASS: hal_audio_interrupt(); hal_tts_interrupt();
IoInterruptHal ==
  /\ ioPc = "intr"
  /\ audio_interrupted' = hal_audio_interrupt
  /\ tts_interrupted' = hal_tts_interrupt
  /\ ioPc' = "flush"
  /\ UNCHANGED <<queue, audio_queue_lock, audio_queue_available, ioPkt,
                 queue_empty, ack_result, outPipe, nextTag, ioHist, wState,
                 nonFw>>

\* lock(audio_queue_lock); clear_queue(queue); unlock(audio_queue_lock);
IoFlushQueue ==
  /\ ioPc = "flush"
  /\ audio_queue_lock = "free"
  /\ flushed' = flushed \cup Tags(queue)
  /\ queue' = IoFlushedQueue(queue)
  /\ ack_result' = 0
  /\ ioPc' = "ackHdr"
  /\ UNCHANGED <<audio_queue_lock, audio_queue_available, ioPkt, queue_empty,
                 audio_interrupted, tts_interrupted, outPipe, nextTag,
                 pushed, received, pendingAtIntr, wState, nonFw>>

\* write(o_pipe, ack_packet, 8);
IoWriteHeader(from, to) ==
  /\ ioPc = from
  /\ outPipe' = Append(outPipe, [by |-> "io", part |-> "hdr",
                                 tag |-> ioPkt.tag, status |-> 0])
  /\ ioPc' = to
  /\ UNCHANGED <<queue, audio_queue_lock, audio_queue_available, ioPkt,
                 queue_empty, ack_result, audio_interrupted, tts_interrupted,
                 nextTag, ioHist, wState, nonFw>>

\* write(o_pipe, ack_packet->data, sizeof(int));
\* if (queue_empty) pthread_mutex_unlock(&audio_queue_available); continue;
IoWriteData(from) ==
  /\ ioPc = from
  /\ outPipe' = Append(outPipe, [by |-> "io", part |-> "data",
                                 tag |-> ioPkt.tag, status |-> ack_result])
  /\ audio_queue_available' = IF queue_empty THEN "free"
                              ELSE audio_queue_available
  /\ ioPc' = "top"
  /\ UNCHANGED <<queue, audio_queue_lock, ioPkt, queue_empty, ack_result,
                 audio_interrupted, tts_interrupted, nextTag, ioHist, wState,
                 nonFw>>

IoInterruptAckHeader == IoWriteHeader("ackHdr", "ackData")

IoInterruptAckData == IoWriteData("ackData")

\* BEEP BYPASS: hal_audio_clear_interrupt(); hal_audio_play_beep(beep_type);
IoBeep ==
  /\ ioPc = "beep"
  /\ audio_interrupted' = hal_audio_clear_interrupt
  /\ \E r \in HalResults : ack_result' = r
  /\ ioPc' = "beepAckHdr"
  /\ UNCHANGED <<queue, audio_queue_lock, audio_queue_available, ioPkt,
                 queue_empty, tts_interrupted, outPipe, nextTag, ioHist,
                 wState, nonFw>>

IoBeepAckHeader == IoWriteHeader("beepAckHdr", "beepAckData")

IoBeepAckData == IoWriteData("beepAckData")

\* queued_packet = create_inst_packet(...); lock(audio_queue_lock);
\* enqueue(queue, queued_packet); unlock(audio_queue_lock);
\* if (queue_empty) unlock(audio_queue_available);
IoEnqueue ==
  /\ ioPc = "enqueue"
  /\ audio_queue_lock = "free"
  /\ enqueue_ready(queue)
  /\ queue' = enqueue(queue, ioPkt)
  /\ pushed' = Append(pushed, ioPkt.tag)
  /\ audio_queue_available' = IF queue_empty THEN "free"
                              ELSE audio_queue_available
  /\ ioPc' = "top"
  /\ UNCHANGED <<audio_queue_lock, ioPkt, queue_empty, ack_result,
                 audio_interrupted, tts_interrupted, outPipe, nextTag,
                 flushed, received, pendingAtIntr, wState, nonFw>>

\* ------------------------------------------------------------------------
\* audio_process: the worker loop
\* ------------------------------------------------------------------------
ioState == <<ioPc, ioPkt, queue_empty, ack_result, nextTag, ioHist>>

\* pthread_mutex_lock(&audio_queue_available);
WorkerLockAvailable ==
  /\ wPc = "lockAvail"
  /\ audio_queue_available = "free"
  /\ audio_queue_available' = "worker"
  /\ wPc' = "lockQueue"
  /\ UNCHANGED <<queue, audio_queue_lock, received_packet, system_result,
                 audio_interrupted, tts_interrupted, outPipe, popped,
                 dispatched, ioState, nonFw>>

\* pthread_mutex_lock(&audio_queue_lock);
WorkerLockQueue ==
  /\ wPc = "lockQueue"
  /\ audio_queue_lock = "free"
  /\ audio_queue_lock' = "worker"
  /\ wPc' = "check"
  /\ UNCHANGED <<queue, audio_queue_available, received_packet, system_result,
                 audio_interrupted, tts_interrupted, outPipe, popped,
                 dispatched, ioState, nonFw>>

\* if (is_empty(input_queue)) { unlock both; usleep(500); continue; }
WorkerQueueEmpty ==
  /\ wPc = "check"
  /\ is_empty(queue)
  /\ audio_queue_available' = "free"
  /\ audio_queue_lock' = "free"
  /\ wPc' = "lockAvail"
  /\ UNCHANGED <<queue, received_packet, system_result, audio_interrupted,
                 tts_interrupted, outPipe, popped, dispatched, ioState, nonFw>>

\* received_packet = dequeue(input_queue); unlock both;
WorkerDequeue ==
  /\ wPc = "check"
  /\ ~is_empty(queue)
  /\ received_packet' = dequeue_packet(queue)
  /\ queue' = dequeue_rest(queue)
  /\ popped' = Append(popped, dequeue_packet(queue))
  /\ audio_queue_lock' = "free"
  /\ audio_queue_available' = "free"
  /\ wPc' = "dispatch"
  /\ UNCHANGED <<system_result, audio_interrupted, tts_interrupted, outPipe,
                 dispatched, ioState, nonFw>>

\* audio_type_byte == 'd': hal_audio_clear_interrupt(); hal_tts_speak(...)
\* starts (hal_tts_speak clears tts_interrupted before it streams).
WorkerDispatchSpeak ==
  /\ wPc = "dispatch"
  /\ received_packet.sub = "d"
  /\ audio_interrupted' = hal_audio_clear_interrupt
  /\ tts_interrupted' = FALSE
  /\ dispatched' = dispatched \cup {received_packet.tag}
  /\ wPc' = "speak"
  /\ UNCHANGED <<queue, audio_queue_lock, audio_queue_available,
                 received_packet, system_result, outPipe, popped, ioState,
                 nonFw>>

\* system_result = hal_tts_speak(remaining_string, NULL);
WorkerSpeakReturns ==
  /\ wPc = "speak"
  /\ \E r \in HalResults : system_result' = r
  /\ wPc' = "writeHdr"
  /\ UNCHANGED <<queue, audio_queue_lock, audio_queue_available,
                 received_packet, audio_interrupted, tts_interrupted, outPipe,
                 popped, dispatched, ioState, nonFw>>

\* else { "Audio error. Unrecognized packet data"; system_result = -1; }
WorkerDispatchUnrecognized ==
  /\ wPc = "dispatch"
  /\ received_packet.sub # "d"
  /\ system_result' = WorkerUnrecognizedResult(received_packet)
  /\ wPc' = "writeHdr"
  /\ UNCHANGED <<queue, audio_queue_lock, audio_queue_available,
                 received_packet, audio_interrupted, tts_interrupted, outPipe,
                 popped, dispatched, ioState, nonFw>>

\* write(output_pipe_fd, packet_to_send, 8);
WorkerWriteHeader ==
  /\ wPc = "writeHdr"
  /\ outPipe' = Append(outPipe, [by |-> "worker", part |-> "hdr",
                                 tag |-> WorkerResponseTag(received_packet),
                                 status |-> 0])
  /\ wPc' = "writeData"
  /\ UNCHANGED <<queue, audio_queue_lock, audio_queue_available,
                 received_packet, system_result, audio_interrupted,
                 tts_interrupted, popped, dispatched, ioState, nonFw>>

\* write(output_pipe_fd, packet_to_send->data, sizeof(int));
WorkerWriteData ==
  /\ wPc = "writeData"
  /\ outPipe' = Append(outPipe, [by |-> "worker", part |-> "data",
                                 tag |-> WorkerResponseTag(received_packet),
                                 status |-> system_result])
  /\ wPc' = "lockAvail"
  /\ UNCHANGED <<queue, audio_queue_lock, audio_queue_available,
                 received_packet, system_result, audio_interrupted,
                 tts_interrupted, popped, dispatched, ioState, nonFw>>

\* ------------------------------------------------------------------------
\* ResponseQueue (comm.c): circular buffer with head, tail, count
\* ------------------------------------------------------------------------
\* response_queue_init
response_queue_init ==
  [packets |-> [i \in 0..(COMM_RESPONSE_QUEUE_SIZE - 1) |-> 0],
   head |-> 0, tail |-> 0, count |-> 0]

\* DropOldest with the newest entry given up instead (the tail moved back).
DropOldest_newest(q) ==
  [q EXCEPT !.tail = (q.tail + COMM_RESPONSE_QUEUE_SIZE - 1) % COMM_RESPONSE_QUEUE_SIZE,
            !.count = q.count - 1]

\* response_queue_push: the branch taken when the queue is full
\* (q->head = (q->head + 1) % SIZE; q->count--)
DropOldest(q) ==
  [q EXCEPT !.head = (q.head + 1) % COMM_RESPONSE_QUEUE_SIZE,
            !.count = q.count - 1]

\* response_queue_push: the queue after the push of packet
response_queue_push(q, packet) ==
  LET q1 == IF q.count >= COMM_RESPONSE_QUEUE_SIZE THEN DropOldest(q) ELSE q
  IN [q1 EXCEPT !.packets[q1.tail] = packet,
                !.tail = (q1.tail + 1) % COMM_RESPONSE_QUEUE_SIZE,
                !.count = q1.count + 1]

\* response_queue_pop_timeout, "Remove packet from head": the packet
PopPacket(q) == q.packets[q.head]

\* response_queue_pop_timeout, "Remove packet from head": the queue after it
PopRest(q) ==
  [q EXCEPT !.head = (q.head + 1) % COMM_RESPONSE_QUEUE_SIZE,
            !.count = q.count - 1]

\* The packets a queue holds, oldest first.
Contents(q) ==
  [i \in 1..q.count |-> q.packets[(q.head + i - 1) % COMM_RESPONSE_QUEUE_SIZE]]

\* The last n elements of a sequence.
LastN(s, n) == SubSeq(s, Len(s) - n + 1, Len(s))

InitRq ==
  /\ keypad_queue = response_queue_init
  /\ arrived = << >>
  /\ taken = << >>

\* The Router pushes the next packet (packets are numbered in arrival order).
RqPush ==
  /\ Len(arrived) < MaxPush
  /\ keypad_queue' = response_queue_push(keypad_queue, Len(arrived) + 1)
  /\ arrived' = Append(arrived, Len(arrived) + 1)
  /\ UNCHANGED <<taken, fwVars, extVars, hsVars, waitVars, commVars>>

\* A consumer removes the packet at the head.
RqPop ==
  /\ keypad_queue.count > 0
  /\ taken' = Append(taken, PopPacket(keypad_queue))
  /\ keypad_queue' = PopRest(keypad_queue)
  /\ UNCHANGED <<arrived, fwVars, extVars, hsVars, waitVars, commVars>>

NextRq == RqPush \/ RqPop


\* ------------------------------------------------------------------------
\* response_queue_pop_timeout, the Router's push and comm_stop_router
\* ------------------------------------------------------------------------
\* The threads that call comm_wait_keypad_response.
Consumers == {"c1", "c2"}

InitWait ==
  /\ router_running = TRUE
  /\ qMutex = "free"
  /\ cPc = [c \in Consumers |-> "idle"]
  /\ cDeadline = [c \in Consumers |-> 0]
  /\ cResult = [c \in Consumers |-> "none"]
  /\ cCallTime = [c \in Consumers |-> 0]
  /\ cReturnTime = [c \in Consumers |-> 0]
  /\ now = 0
  /\ stopPc = "idle"
  /\ caughtByStop = {}

\* Threads blocked in pthread_cond_timedwait on q->not_empty.
Waiters == {c \in Consumers : cPc[c] = "wait"}

\* The deadline of a timed wait: the current time plus timeout_ms.
WaitDeadline(t) == t + TimeoutTicks

\* What the call returns once the loop is left (lines 123-139).
PopOutcome(q, running) ==
  IF ~running /\ q.count = 0 THEN "ERROR"
  ELSE IF q.count = 0 THEN "NOT_FOUND"
  ELSE "OK"

\* The call is made.
CCall(c) ==
  /\ cPc[c] = "idle"
  /\ cPc' = [cPc EXCEPT ![c] = "lock"]
  /\ cCallTime' = [cCallTime EXCEPT ![c] = now]
  /\ UNCHANGED <<router_running, qMutex, cDeadline, cResult, cReturnTime, now,
                 stopPc, caughtByStop, rqVars, fwVars, extVars, hsVars, commVars>>

\* pthread_mutex_lock(&q->mutex), at the call and when a wait returns 0
CLock(c) ==
  /\ cPc[c] \in {"lock", "woken"}
  /\ qMutex = "free"
  /\ qMutex' = c
  /\ cPc' = [cPc EXCEPT ![c] = "check"]
  /\ UNCHANGED <<router_running, cDeadline, cResult, cCallTime, cReturnTime,
                 now, stopPc, caughtByStop, rqVars, fwVars, extVars, hsVars, commVars>>

\* while (q->count == 0 && router_running) { timeout = now + timeout_ms; ...
CLoopWait(c) ==
  /\ cPc[c] = "check"
  /\ keypad_queue.count = 0 /\ router_running
  /\ cDeadline' = [cDeadline EXCEPT ![c] = WaitDeadline(now)]
  /\ cPc' = [cPc EXCEPT ![c] = "enterWait"]
  /\ UNCHANGED <<router_running, qMutex, cResult, cCallTime, cReturnTime, now,
                 stopPc, caughtByStop, rqVars, fwVars, extVars, hsVars, commVars>>

\* pthread_cond_timedwait: the mutex is released and the thread blocks
CTimedWait(c) ==
  /\ cPc[c] = "enterWait"
  /\ qMutex' = "free"
  /\ cPc' = [cPc EXCEPT ![c] = "wait"]
  /\ UNCHANGED <<router_running, cDeadline, cResult, cCallTime, cReturnTime,
                 now, stopPc, caughtByStop, rqVars, fwVars, extVars, hsVars, commVars>>

\* pthread_cond_timedwait reaches its deadline
CDeadlinePasses(c) ==
  /\ cPc[c] = "wait"
  /\ now >= cDeadline[c]
  /\ cPc' = [cPc EXCEPT ![c] = "timedout"]
  /\ UNCHANGED <<router_running, qMutex, cDeadline, cResult, cCallTime,
                 cReturnTime, now, stopPc, caughtByStop, rqVars, fwVars, extVars, hsVars, commVars>>

\* if (result == ETIMEDOUT) { unlock; return HAMPOD_TIMEOUT; }
CReturnTimeout(c) ==
  /\ cPc[c] = "timedout"
  /\ qMutex = "free"
  /\ cResult' = [cResult EXCEPT ![c] = "TIMEOUT"]
  /\ cReturnTime' = [cReturnTime EXCEPT ![c] = now]
  /\ cPc' = [cPc EXCEPT ![c] = "done"]
  /\ UNCHANGED <<router_running, qMutex, cDeadline, cCallTime, now, stopPc,
                 caughtByStop, rqVars, fwVars, extVars, hsVars, commVars>>

\* pthread_cond_timedwait returns 0 with no signal (POSIX allows it)
CSpuriousWakeup(c) ==
  /\ cPc[c] = "wait"
  /\ cPc' = [cPc EXCEPT ![c] = "woken"]
  /\ UNCHANGED <<router_running, qMutex, cDeadline, cResult, cCallTime,
                 cReturnTime, now, stopPc, caughtByStop, rqVars, fwVars, extVars, hsVars, commVars>>

\* The loop is left: HAMPOD_ERROR, HAMPOD_NOT_FOUND, or the head is removed
CReturn(c) ==
  /\ cPc[c] = "check"
  /\ ~(keypad_queue.count = 0 /\ router_running)
  /\ LET out == PopOutcome(keypad_queue, router_running) IN
     /\ cResult' = [cResult EXCEPT ![c] = out]
     /\ IF out = "OK"
        THEN /\ taken' = Append(taken, PopPacket(keypad_queue))
             /\ keypad_queue' = PopRest(keypad_queue)
        ELSE UNCHANGED <<taken, keypad_queue>>
  /\ qMutex' = "free"
  /\ cReturnTime' = [cReturnTime EXCEPT ![c] = now]
  /\ cPc' = [cPc EXCEPT ![c] = "done"]
  /\ UNCHANGED <<router_running, cDeadline, cCallTime, now, stopPc,
                 caughtByStop, arrived, fwVars, extVars, hsVars, commVars>>

\* router_thread_func: response_queue_push(&keypad_queue, &packet), with its
\* pthread_cond_signal, which wakes one waiter if there is one
RouterPush ==
  /\ router_running
  /\ qMutex = "free"
  /\ Len(arrived) < MaxWaitPush
  /\ keypad_queue' = response_queue_push(keypad_queue, Len(arrived) + 1)
  /\ arrived' = Append(arrived, Len(arrived) + 1)
  /\ \E w \in (IF Waiters = {} THEN {"nobody"} ELSE Waiters) :
       cPc' = [c \in Consumers |-> IF c = w THEN "woken" ELSE cPc[c]]
  /\ UNCHANGED <<taken, router_running, qMutex, cDeadline, cResult, cCallTime,
                 cReturnTime, now, stopPc, caughtByStop, fwVars, extVars, hsVars, commVars>>

\* comm_stop_router: router_running = false;
StopClearFlag ==
  /\ stopPc = "idle"
  /\ router_running
  /\ router_running' = FALSE
  /\ stopPc' = "broadcast"
  /\ UNCHANGED <<qMutex, cPc, cDeadline, cResult, cCallTime, cReturnTime, now,
                 caughtByStop, rqVars, fwVars, extVars, hsVars, commVars>>

\* comm_stop_router: pthread_cond_broadcast(&keypad_queue.not_empty);
StopBroadcast ==
  /\ stopPc = "broadcast"
  /\ caughtByStop' = {c \in Consumers :
                        cPc[c] \in {"lock", "check", "enterWait", "wait", "woken"}}
  /\ cPc' = [c \in Consumers |-> IF cPc[c] = "wait" THEN "woken" ELSE cPc[c]]
  /\ stopPc' = "join"
  /\ UNCHANGED <<router_running, qMutex, cDeadline, cResult, cCallTime,
                 cReturnTime, now, rqVars, fwVars, extVars, hsVars, commVars>>

\* Time passes while every caller is outside the call or blocked in a wait
\* whose deadline is still ahead.
Tick ==
  /\ now < MaxTime
  /\ \A c \in Consumers :
       /\ cPc[c] \in {"idle", "wait", "done"}
       /\ cPc[c] = "wait" => now < cDeadline[c]
  /\ now' = now + 1
  /\ UNCHANGED <<router_running, qMutex, cPc, cDeadline, cResult, cCallTime,
                 cReturnTime, stopPc, caughtByStop, rqVars, fwVars, extVars, hsVars, commVars>>

NextWait ==
  \/ \E c \in Consumers :
       \/ CCall(c)
       \/ CLock(c)
       \/ CLoopWait(c)
       \/ CTimedWait(c)
       \/ CDeadlinePasses(c)
       \/ CReturnTimeout(c)
       \/ CSpuriousWakeup(c)
       \/ CReturn(c)
  \/ RouterPush
  \/ StopClearFlag
  \/ StopBroadcast
  \/ Tick

\* ------------------------------------------------------------------------
\* comm.c on the two pipes: comm_send_packet, comm_read_packet, the Router
\* ------------------------------------------------------------------------
\* The Software threads that send packets.
Threads == {"keypad", "speech", "main"}

\* The threads that call comm_read_packet.
Readers == {"router", "main"}

\* The fields of a packet in the order they are written and read.
FieldOrder == <<"type", "len", "tag", "data">>

NoCommPacket == [type |-> "NONE", sub |-> << >>, tag |-> 0]

\* One field of a packet as it travels on a pipe.
Field(f, pkt) == [f |-> f, type |-> pkt.type, sub |-> pkt.sub, tag |-> pkt.tag]

\* The fields of one packet.
Frame(pkt) == [i \in 1..4 |-> Field(FieldOrder[i], pkt)]

\* Four fields read in a row are one packet's type, length, tag and data.
WellFormed(fs) ==
  /\ Len(fs) = 4
  /\ \A i \in 1..4 : fs[i].f = FieldOrder[i]
  /\ \A i \in 1..4 : fs[i].tag = fs[1].tag /\ fs[i].type = fs[1].type
                     /\ fs[i].sub = fs[1].sub

\* packet.type as the reader sees it: the type that was sent, or, when the
\* four fields are not one packet's, any value.
DecodedTypes(fs) ==
  IF WellFormed(fs) THEN {fs[1].type}
  ELSE {"KEYPAD", "AUDIO", "CONFIG", "UNKNOWN"}

\* packet.tag as the reader sees it.
DecodedTag(fs) == fs[3].tag

InitComm ==
  /\ toFirmware = << >>
  /\ fromFirmware = << >>
  /\ fwPending = NoCommPacket
  /\ packet_tag = 0
  /\ sPc = [t \in Threads |-> "idle"]
  /\ sPkt = [t \in Threads |-> NoCommPacket]
  /\ sCalls = [t \in Threads |-> 0]
  /\ rdPc = [r \in Readers |-> IF r = "router" THEN "type" ELSE "off"]
  /\ rdFields = [r \in Readers |-> << >>]
  /\ audio_queue = response_queue_init
  /\ config_queue = response_queue_init
  /\ inboundReaders = {}
  /\ sent = << >>
  /\ inboundClosed = FALSE
  /\ rdBroken = [r \in Readers |-> FALSE]

\* A thread builds a request: .tag = packet_tag++ (the load of packet_tag)
BuildPacket(t, type, sub) ==
  /\ sPkt' = [sPkt EXCEPT ![t] = [type |-> type, sub |-> sub, tag |-> packet_tag]]
  /\ sPc' = [sPc EXCEPT ![t] = "incr"]

\* keypad_thread_func: comm_read_keypad builds the 'r' request
KeypadRequest ==
  /\ hsPc = "running"
  /\ sPc["keypad"] = "idle"
  /\ sCalls["keypad"] + sCalls["speech"] < MaxSends
  /\ sCalls' = [sCalls EXCEPT !["keypad"] = @ + 1]
  /\ BuildPacket("keypad", "KEYPAD", <<"r">>)
  /\ UNCHANGED <<toFirmware, fromFirmware, fwPending, packet_tag, rdPc, rdFields,
                 audio_queue, config_queue, inboundReaders, rqVars, waitVars,
                 fwVars, extVars, hsVars, sent, failVars>>

\* speech_thread_func: comm_send_audio(item.type, item.payload)
SpeechSend ==
  /\ hsPc = "running"
  /\ sPc["speech"] = "idle"
  /\ sCalls["keypad"] + sCalls["speech"] < MaxSends
  /\ sCalls' = [sCalls EXCEPT !["speech"] = @ + 1]
  /\ BuildPacket("speech", "AUDIO", <<"d">>)
  /\ UNCHANGED <<toFirmware, fromFirmware, fwPending, packet_tag, rdPc, rdFields,
                 audio_queue, config_queue, inboundReaders, rqVars, waitVars,
                 fwVars, extVars, hsVars, sent, failVars>>

\* test_comm_write.c main: comm_send_audio_sync -> comm_send_audio
MainSendSync ==
  /\ sPc["main"] = "idle"
  /\ sCalls["main"] < MaxSyncCalls
  /\ sCalls' = [sCalls EXCEPT !["main"] = @ + 1]
  /\ BuildPacket("main", "AUDIO", <<"d">>)
  /\ UNCHANGED <<toFirmware, fromFirmware, fwPending, packet_tag, rdPc, rdFields,
                 audio_queue, config_queue, inboundReaders, rqVars, waitVars,
                 fwVars, extVars, hsVars, sent, failVars>>

\* .tag = packet_tag++ (the store of the incremented value)
TagIncrement(t) ==
  /\ sPc[t] = "incr"
  /\ packet_tag' = (sPkt[t].tag + 1) % TagModulus
  /\ sPc' = [sPc EXCEPT ![t] = "type"]
  /\ UNCHANGED <<toFirmware, fromFirmware, fwPending, sPkt, sCalls, rdPc, rdFields,
                 audio_queue, config_queue, inboundReaders, rqVars, waitVars,
                 fwVars, extVars, hsVars, sent, failVars>>

\* One write() of comm_send_packet.
WriteField(t, f, next) ==
  /\ sPc[t] = f
  /\ toFirmware' = Append(toFirmware, Field(f, sPkt[t]))
  /\ sPc' = [sPc EXCEPT ![t] = next]
  /\ UNCHANGED <<fromFirmware, fwPending, packet_tag, sPkt, sCalls, rdFields,
                 audio_queue, config_queue, inboundReaders, rqVars, waitVars,
                 fwVars, extVars, hsVars, failVars>>

\* Where a thread goes when comm_send_packet has returned.
AfterSend(t) ==
  IF t = "main" THEN (IF hsPc = "query" THEN "awaitAudio" ELSE "recv")
  ELSE IF t = "keypad" /\ sPkt[t].type = "KEYPAD" THEN "await"
  ELSE "idle"

\* comm_send_packet: write(fd_firmware_in, &packet->type, ...)
SendType(t) == WriteField(t, "type", "len") /\ UNCHANGED <<rdPc, sent>>

\* comm_send_packet: write(fd_firmware_in, &packet->data_len, ...)
SendLen(t) == WriteField(t, "len", "tag") /\ UNCHANGED <<rdPc, sent>>

\* comm_send_packet: write(fd_firmware_in, &packet->tag, ...)
SendTag(t) == WriteField(t, "tag", "data") /\ UNCHANGED <<rdPc, sent>>

\* comm_send_packet: write(fd_firmware_in, packet->data, ...) and return;
\* comm_send_audio_sync goes on to comm_read_packet
SendData(t) ==
  /\ WriteField(t, "data", AfterSend(t))
  /\ rdPc' = IF AfterSend(t) = "recv" THEN [rdPc EXCEPT !["main"] = "type"]
             ELSE rdPc
  /\ sent' = Append(sent, sPkt[t])

\* comm_read_keypad: comm_wait_keypad_response returns a packet
KeypadGetResponse ==
  /\ sPc["keypad"] = "await"
  /\ keypad_queue.count > 0
  /\ taken' = Append(taken, PopPacket(keypad_queue))
  /\ keypad_queue' = PopRest(keypad_queue)
  /\ sPc' = [sPc EXCEPT !["keypad"] = "event"]
  /\ UNCHANGED <<toFirmware, fromFirmware, fwPending, packet_tag, sPkt, sCalls, rdPc,
                 rdFields, audio_queue, config_queue, inboundReaders, arrived,
                 waitVars, fwVars, extVars, hsVars, sent, failVars>>

\* comm_read_keypad: comm_wait_keypad_response returns HAMPOD_TIMEOUT
KeypadTimeout ==
  /\ sPc["keypad"] = "await"
  /\ keypad_queue.count = 0
  /\ sPc' = [sPc EXCEPT !["keypad"] = "idle"]
  /\ UNCHANGED <<toFirmware, fromFirmware, fwPending, packet_tag, sPkt, sCalls, rdPc,
                 rdFields, audio_queue, config_queue, inboundReaders, rqVars,
                 waitVars, fwVars, extVars, hsVars, sent, failVars>>

\* keypad_thread_func: fire_event -> comm_play_beep -> comm_send_audio('b')
KeypadBeep ==
  /\ sPc["keypad"] = "event"
  /\ sCalls["keypad"] + sCalls["speech"] < MaxSends
  /\ sCalls' = [sCalls EXCEPT !["keypad"] = @ + 1]
  /\ BuildPacket("keypad", "AUDIO", <<"b">>)
  /\ UNCHANGED <<toFirmware, fromFirmware, fwPending, packet_tag, rdPc, rdFields,
                 audio_queue, config_queue, inboundReaders, rqVars, waitVars,
                 fwVars, extVars, hsVars, sent, failVars>>

\* keypad_thread_func: the key read fires no event
KeypadNoEvent ==
  /\ sPc["keypad"] = "event"
  /\ sPc' = [sPc EXCEPT !["keypad"] = "idle"]
  /\ UNCHANGED <<toFirmware, fromFirmware, fwPending, packet_tag, sPkt, sCalls, rdPc,
                 rdFields, audio_queue, config_queue, inboundReaders, rqVars,
                 waitVars, fwVars, extVars, hsVars, sent, failVars>>

\* The Firmware reads one request (type, length, tag, data) and writes the
\* header of its response: the type, the length and the tag of the request.
FwRespondHeader ==
  /\ ~inboundClosed
  /\ fwPending = NoCommPacket
  /\ Len(toFirmware) >= 4
  /\ WellFormed(SubSeq(toFirmware, 1, 4))
  /\ LET resp == [type |-> toFirmware[1].type, sub |-> toFirmware[1].sub,
                  tag |-> toFirmware[1].tag] IN
     /\ fromFirmware' = fromFirmware \o SubSeq(Frame(resp), 1, 3)
     /\ fwPending' = resp
  /\ toFirmware' = SubSeq(toFirmware, 5, Len(toFirmware))
  /\ UNCHANGED <<packet_tag, sPc, sPkt, sCalls, rdPc, rdFields, audio_queue,
                 config_queue, inboundReaders, rqVars, waitVars, fwVars, extVars, hsVars, sent, failVars>>

\* The Firmware writes the data of that response.
FwRespondData ==
  /\ ~inboundClosed
  /\ fwPending # NoCommPacket
  /\ fromFirmware' = Append(fromFirmware, Frame(fwPending)[4])
  /\ fwPending' = NoCommPacket
  /\ UNCHANGED <<toFirmware, packet_tag, sPc, sPkt, sCalls, rdPc, rdFields,
                 audio_queue, config_queue, inboundReaders, rqVars, waitVars,
                 fwVars, extVars, hsVars, sent, failVars>>

\* One read() of comm_read_packet by reader r.
ReadField(r, f, next) ==
  /\ rdPc[r] = f
  /\ fromFirmware # << >>
  /\ rdFields' = [rdFields EXCEPT ![r] = Append(@, Head(fromFirmware))]
  /\ fromFirmware' = Tail(fromFirmware)
  /\ rdPc' = [rdPc EXCEPT ![r] = next]
  /\ inboundReaders' = IF router_running THEN inboundReaders \cup {r}
                       ELSE inboundReaders
  /\ UNCHANGED <<toFirmware, fwPending, packet_tag, sPc, sPkt, sCalls, audio_queue,
                 config_queue, rqVars, waitVars, fwVars, extVars, hsVars, sent, failVars>>

\* comm_read_packet: read(fd_firmware_out, &packet->type, ...)
ReadType(r) == ReadField(r, "type", "len")

\* comm_read_packet: read(fd_firmware_out, &packet->data_len, ...)
ReadLen(r) == ReadField(r, "len", "tag")

\* comm_read_packet: read(fd_firmware_out, &packet->tag, ...)
ReadTag(r) == ReadField(r, "tag", "data")

\* comm_read_packet: read(fd_firmware_out, packet->data, ...)
ReadData(r) == ReadField(r, "data", "got")

\* router_thread_func: while (router_running): into comm_read_packet again,
\* or out of the loop
RouterLoopTest == IF router_running THEN "type" ELSE "exited"

\* router_thread_func: switch (packet.type), the push, and the loop test
RouterRoute ==
  /\ rdPc["router"] = "got"
  /\ \E ty \in DecodedTypes(rdFields["router"]) :
       LET tag == DecodedTag(rdFields["router"]) IN
       /\ keypad_queue' = IF ty = "KEYPAD"
                          THEN response_queue_push(keypad_queue, tag)
                          ELSE keypad_queue
       /\ arrived' = IF ty = "KEYPAD" THEN Append(arrived, tag) ELSE arrived
       /\ audio_queue' = IF ty = "AUDIO"
                         THEN response_queue_push(audio_queue, tag)
                         ELSE audio_queue
       /\ config_queue' = IF ty = "CONFIG"
                          THEN response_queue_push(config_queue, tag)
                          ELSE config_queue
  /\ rdPc' = [rdPc EXCEPT !["router"] = RouterLoopTest]
  /\ rdFields' = [rdFields EXCEPT !["router"] = << >>]
  /\ UNCHANGED <<toFirmware, fromFirmware, fwPending, packet_tag, sPc, sPkt, sCalls,
                 inboundReaders, taken, waitVars, fwVars, extVars, hsVars, sent, failVars>>

\* comm_send_audio_sync: "Verify response type" and return
MainVerify ==
  /\ rdPc["main"] = "got"
  /\ sPc["main"] = "recv"
  /\ rdPc' = [rdPc EXCEPT !["main"] = "off"]
  /\ rdFields' = [rdFields EXCEPT !["main"] = << >>]
  /\ sPc' = [sPc EXCEPT !["main"] = "idle"]
  /\ UNCHANGED <<toFirmware, fromFirmware, fwPending, packet_tag, sPkt, sCalls,
                 audio_queue, config_queue, inboundReaders, rqVars, waitVars,
                 fwVars, extVars, hsVars, sent, failVars>>

\* One step of comm_send_packet by thread t, from the tag's increment on.
SendStep(t) ==
  \/ TagIncrement(t)
  \/ SendType(t)
  \/ SendLen(t)
  \/ SendTag(t)
  \/ SendData(t)

\* One step of comm_read_packet by reader r.
ReadStep(r) ==
  \/ ReadType(r)
  \/ ReadLen(r)
  \/ ReadTag(r)
  \/ ReadData(r)

\* The Firmware process ends: the write end of Firmware_o is closed, with
\* whatever it had written of its last response left in the pipe.
FwCloses ==
  /\ ~inboundClosed
  /\ inboundClosed' = TRUE
  /\ UNCHANGED <<toFirmware, fromFirmware, fwPending, packet_tag, sPc, sPkt,
                 sCalls, rdPc, rdFields, audio_queue, config_queue,
                 inboundReaders, sent, rdBroken, rqVars, waitVars, fwVars, extVars, hsVars>>

\* comm_read_packet: a read() on the drained, closed pipe returns 0, which is
\* not the size asked for: return HAMPOD_ERROR
ReadFails(r) ==
  /\ rdPc[r] \in {"type", "len", "tag", "data"}
  /\ fromFirmware = << >>
  /\ inboundClosed
  /\ rdBroken' = [rdBroken EXCEPT ![r] = @ \/ rdFields[r] # << >>]
  /\ rdPc' = [rdPc EXCEPT ![r] = "failed"]
  /\ UNCHANGED <<toFirmware, fromFirmware, fwPending, packet_tag, sPc, sPkt,
                 sCalls, rdFields, audio_queue, config_queue, inboundReaders,
                 sent, inboundClosed, rqVars, waitVars, fwVars, extVars, hsVars>>

\* router_thread_func: if (result != HAMPOD_OK) { if (!router_running) break;
\* LOG_ERROR(...); usleep(100000);
RouterReadFailed ==
  /\ rdPc["router"] = "failed"
  /\ rdPc' = [rdPc EXCEPT !["router"] = IF router_running THEN "sleep"
                                        ELSE "exited"]
  /\ rdFields' = [rdFields EXCEPT !["router"] = << >>]
  /\ UNCHANGED <<toFirmware, fromFirmware, fwPending, packet_tag, sPc, sPkt,
                 sCalls, audio_queue, config_queue, inboundReaders, sent,
                 failVars, rqVars, waitVars, fwVars, extVars, hsVars>>

\* router_thread_func: continue; after the sleep, and the loop test
RouterRetry ==
  /\ rdPc["router"] = "sleep"
  /\ rdPc' = [rdPc EXCEPT !["router"] = RouterLoopTest]
  /\ UNCHANGED <<toFirmware, fromFirmware, fwPending, packet_tag, sPc, sPkt,
                 sCalls, rdFields, audio_queue, config_queue, inboundReaders,
                 sent, failVars, rqVars, waitVars, fwVars, extVars, hsVars>>

\* comm_stop_router as far as the Router's loop sees it:
\* router_running = false;
StopRouter ==
  /\ router_running
  /\ router_running' = FALSE
  /\ stopPc' = "broadcast"
  /\ UNCHANGED <<qMutex, cPc, cDeadline, cResult, cCallTime, cReturnTime, now,
                 caughtByStop, rqVars, fwVars, extVars, hsVars, commVars>>

\* One step of router_thread_func.
RouterStep ==
  \/ ReadStep("router")
  \/ ReadFails("router")
  \/ RouterRoute
  \/ RouterReadFailed
  \/ RouterRetry

\* main.c with nothing queued for speech: keypad thread and Router, and a
\* Firmware that can end.
NextRouter ==
  \/ KeypadRequest
  \/ KeypadGetResponse
  \/ KeypadTimeout
  \/ KeypadNoEvent
  \/ SendStep("keypad")
  \/ FwRespondHeader
  \/ FwRespondData
  \/ FwCloses
  \/ StopRouter
  \/ RouterStep

\* main.c: keypad thread, speech thread, Router
NextSw ==
  \/ KeypadRequest
  \/ KeypadGetResponse
  \/ KeypadTimeout
  \/ KeypadBeep
  \/ KeypadNoEvent
  \/ SpeechSend
  \/ \E t \in {"keypad", "speech"} : SendStep(t)
  \/ FwRespondHeader
  \/ FwRespondData
  \/ ReadStep("router")
  \/ RouterRoute

\* tests/test_comm_write.c: main thread, Router
NextCommTest ==
  \/ MainSendSync
  \/ SendStep("main")
  \/ FwRespondHeader
  \/ FwRespondData
  \/ \E r \in Readers : ReadStep(r)
  \/ RouterRoute
  \/ MainVerify

\* ------------------------------------------------------------------------
\* The packet codec: comm_send_packet, comm_read_packet, and the reads of
\* audio_io_thread and keypad_io_thread, on a stream of bytes
\* ------------------------------------------------------------------------
\* The numeric values of PacketType (comm.h): KEYPAD, AUDIO, SERIAL, CONFIG.
PacketTypes == 0..3

\* Tags the codec is tried on.
CodecTags == {0, 1, 255, 256, TagModulus - 1}

\* Payload lengths the codec is tried on, with a first one beyond the buffer.
CodecLens == {0, 1, 2, COMM_MAX_DATA_LEN - 1, COMM_MAX_DATA_LEN,
              COMM_MAX_DATA_LEN + 1}

\* Payloads: byte i of the payload is (fill + i) % 256.
CodecFills == {0, 65, 255}

Payload(fill, len) == [i \in 1..len |-> (fill + i) % 256]

CodecPackets ==
  { [type |-> ty, len |-> n, tag |-> tg, data |-> Payload(fill, n)] :
      ty \in PacketTypes, n \in CodecLens, tg \in CodecTags, fill \in CodecFills }

\* 256 to the power k.
RECURSIVE Pow256(_)
Pow256(k) == IF k = 0 THEN 1 ELSE 256 * Pow256(k - 1)

\* The width bytes of the integer n in memory (little-endian), as written by
\* write(fd, &n, width).
ToBytes(n, width) == [i \in 1..width |-> (n \div Pow256(i - 1)) % 256]

\* FromBytes reading the bytes in the opposite order.
FromBytes_bigEndian(bs) ==
  LET F[k \in 0..Len(bs)] ==
        IF k = 0 THEN 0 ELSE F[k - 1] * 256 + bs[k]
  IN F[Len(bs)]

\* The integer that read(fd, &n, width) leaves in n.
FromBytes(bs) ==
  LET F[k \in 0..Len(bs)] ==
        IF k = 0 THEN 0 ELSE F[k - 1] + bs[k] * Pow256(k - 1)
  IN F[Len(bs)]

\* comm_send_packet: the bytes of the four write() calls
comm_send_packet(p) ==
  ToBytes(p.type, PacketTypeSize) \o ToBytes(p.len, 2) \o ToBytes(p.tag, 2)
    \o (IF p.len > 0 THEN SubSeq(p.data, 1, p.len) ELSE << >>)

\* The first n bytes of a stream, or fewer if it ends.
Take(stream, n) == SubSeq(stream, 1, IF n < Len(stream) THEN n ELSE Len(stream))

\* A stream without its first n bytes.
Drop(stream, n) == SubSeq(stream, n + 1, Len(stream))

\* A failed read of the codec: nothing was stored in the payload buffer.
CodecError(status) ==
  [status |-> status, type |-> 0, len |-> 0, tag |-> 0, data |-> << >>,
   stored |-> 0]

\* comm_read_packet on a stream: each read() that returns fewer bytes than
\* asked for is an error; data_len > COMM_MAX_DATA_LEN is an error before the
\* payload is read.
comm_read_packet(stream) ==
  LET tyB  == Take(stream, PacketTypeSize)
      s1   == Drop(stream, PacketTypeSize)
      lenB == Take(s1, 2)
      s2   == Drop(s1, 2)
      tagB == Take(s2, 2)
      s3   == Drop(s2, 2)
      len  == FromBytes(lenB)
      dat  == Take(s3, len)
  IN IF Len(tyB) # PacketTypeSize THEN CodecError("Truncated")
     ELSE IF Len(lenB) # 2 THEN CodecError("Truncated")
     ELSE IF Len(tagB) # 2 THEN CodecError("Truncated")
     ELSE IF len > 0 /\ len > COMM_MAX_DATA_LEN THEN CodecError("OversizedPayload")
     ELSE IF len > 0 /\ Len(dat) # len THEN CodecError("Truncated")
     ELSE [status |-> "OK", type |-> FromBytes(tyB), len |-> len,
           tag |-> FromBytes(tagB), data |-> dat, stored |-> Len(dat)]

\* The reads of audio_io_thread (checked: bytes_read <= 0 ends the thread)
\* and of keypad_io_thread (unchecked): read(i_pipe, buffer, size) stores as
\* many bytes as the stream gives, up to size, in unsigned char buffer[256].
firmware_read_packet(stream, checked) ==
  LET tyB  == Take(stream, PacketTypeSize)
      s1   == Drop(stream, PacketTypeSize)
      lenB == Take(s1, 2)
      s2   == Drop(s1, 2)
      tagB == Take(s2, 2)
      s3   == Drop(s2, 2)
      len  == FromBytes(lenB)
      dat  == Take(s3, len)
  IN IF checked /\ (Len(tyB) = 0 \/ Len(lenB) = 0 \/ Len(tagB) = 0
                    \/ Len(dat) = 0)
     THEN CodecError("Exit")
     ELSE [status |-> "OK", type |-> FromBytes(tyB), len |-> len,
           tag |-> FromBytes(tagB), data |-> dat, stored |-> Len(dat)]

\* The readers of the wire format.
CodecReaders == {"comm_read_packet", "audio_io_thread", "keypad_io_thread"}

ReadBy(reader, stream) ==
  IF reader = "comm_read_packet" THEN comm_read_packet(stream)
  ELSE firmware_read_packet(stream, reader = "audio_io_thread")

\* The codec at rest, in the specifications of the other parts.
InitCodecIdle ==
  /\ cdPacket = [type |-> 0, len |-> 0, tag |-> 0, data |-> << >>]
  /\ cdStream = << >>
  /\ cdPhase = "start"
  /\ cdReader = "none"
  /\ cdResult = CodecError("none")

\* A packet is about to be written.
InitCodec ==
  /\ cdPacket \in CodecPackets
  /\ cdStream = << >>
  /\ cdPhase = "start"
  /\ cdReader = "none"
  /\ cdResult = CodecError("none")

\* The writer puts the frame of the packet on the pipe.
CodecWrite ==
  /\ cdPhase = "start"
  /\ cdStream' = comm_send_packet(cdPacket)
  /\ cdPhase' = "written"
  /\ UNCHANGED <<cdPacket, cdReader, cdResult, nonCodec>>

\* A reader reads one packet from the pipe.
CodecRead(reader) ==
  /\ cdPhase = "written"
  /\ cdResult' = ReadBy(reader, cdStream)
  /\ cdReader' = reader
  /\ cdPhase' = "read"
  /\ UNCHANGED <<cdPacket, cdStream, nonCodec>>

NextCodec ==
  \/ CodecWrite
  \/ \E reader \in CodecReaders : CodecRead(reader)

\* ------------------------------------------------------------------------
\* The key classifier: one iteration of keypad_thread_func per sample
\* ------------------------------------------------------------------------
\* The keys a sample can show; "-" is no key.
Keys == {"5", "7"}
NoKey == "-"

\* The time from one sample to the next: the poll interval, or twice that
\* when comm_read_keypad was slow.
PollGaps == {DEFAULT_POLL_INTERVAL_MS, 2 * DEFAULT_POLL_INTERVAL_MS}

\* HoldReached with the threshold never reached.
HoldReached_never(elapsed) == FALSE

\* HoldReached with the threshold reached at once.
HoldReached_always(elapsed) == elapsed >= 0

\* elapsed_since_press() >= hold_threshold_ms
HoldReached(elapsed) == elapsed >= DEFAULT_HOLD_THRESHOLD_MS

\* HoldFiredFlag with the flag left as it was.
HoldFiredFlag_unset(fired) == fired

\* hold_event_fired after fire_event(key, true): hold_event_fired = true
HoldFiredFlag(fired) == TRUE

\* The bytes that show no key: '-', 0xFF and 0x00.
NotPressed == {NoKey, "0xFF", "0x00"}

\* Released with one empty sample taken as the release.
Released_atOnce(count) == count >= 1

\* if (no_key_count >= RELEASE_THRESHOLD)
Released(count) == count >= RELEASE_THRESHOLD

\* TapOnChange with the Tap fired whatever was fired before.
TapOnChange_always(fired) == TRUE

\* Different key: if (!hold_event_fired) fire_event(last_key, false)
TapOnChange(fired) == ~fired

\* bool key_pressed = (key != '-' && key != 0xFF && key != 0x00)
key_pressed(key) == key \notin NotPressed

\* What a sample shows: its key, or no key.
Shown(key) == IF key_pressed(key) THEN key ELSE NoKey

\* One iteration of the loop on sample key: the state after it and the
\* events it fired, as [last, elapsed, fired, count, events], where elapsed
\* is the clock measured from key_press_time after the iteration.
Classify(key) ==
  IF key_pressed(key) THEN
    IF last_key = NoKey THEN
      [last |-> key, elapsed |-> 0, fired |-> FALSE, count |-> 0,
       events |-> << >>]
    ELSE IF last_key = key THEN
      IF ~hold_event_fired /\ HoldReached(kElapsed)
      THEN [last |-> last_key, elapsed |-> kElapsed,
            fired |-> HoldFiredFlag(hold_event_fired), count |-> 0,
            events |-> << [key |-> key, isHold |-> TRUE] >>]
      ELSE [last |-> last_key, elapsed |-> kElapsed,
            fired |-> hold_event_fired, count |-> 0, events |-> << >>]
    ELSE
      [last |-> key, elapsed |-> 0, fired |-> FALSE, count |-> 0,
       events |-> IF TapOnChange(hold_event_fired)
                  THEN << [key |-> last_key, isHold |-> FALSE] >>
                  ELSE << >>]
  ELSE IF last_key # NoKey THEN
    LET hold1  == ~hold_event_fired /\ HoldReached(kElapsed)
        fired1 == IF hold1 THEN HoldFiredFlag(hold_event_fired)
                  ELSE hold_event_fired
        ev1    == IF hold1 THEN << [key |-> last_key, isHold |-> TRUE] >>
                  ELSE << >>
        count1 == no_key_count + 1
    IN IF Released(count1)
       THEN [last |-> NoKey, elapsed |-> 0, fired |-> fired1, count |-> 0,
             events |-> IF ~fired1
                        THEN ev1 \o << [key |-> last_key,
                                        isHold |-> HoldReached(kElapsed)] >>
                        ELSE ev1]
       ELSE [last |-> last_key, elapsed |-> kElapsed, fired |-> fired1,
             count |-> count1, events |-> ev1]
  ELSE
    [last |-> last_key, elapsed |-> 0, fired |-> hold_event_fired,
     count |-> no_key_count, events |-> << >>]

\* The number of events of one sort in a sequence of events.
CountEvents(events, isHold) ==
  Cardinality({i \in 1..Len(events) : events[i].isHold = isHold})

\* No interaction ended at the last sample.
NoInteraction ==
  [key |-> NoKey, samples |-> 0, pure |-> TRUE, onTime |-> TRUE,
   endedBy |-> "none", taps |-> 0, holds |-> 0]

InitKeys ==
  /\ last_key = NoKey
  /\ kElapsed = 0
  /\ hold_event_fired = FALSE
  /\ no_key_count = 0
  /\ kPolls = 0
  /\ gKey = NoKey
  /\ gEmpty = 0
  /\ gSamples = 0
  /\ gPure = TRUE
  /\ gOnTime = TRUE
  /\ gTaps = 0
  /\ gHolds = 0
  /\ gStray = 0
  /\ gGap = 0
  /\ gSince = 0
  /\ gLast = NoInteraction

\* The record of the interaction under way as it ends, with the events of
\* the sample that ended it.
Ended(how, events) ==
  [key |-> gKey, samples |-> gSamples, pure |-> gPure, onTime |-> gOnTime,
   endedBy |-> how, taps |-> gTaps + CountEvents(events, FALSE),
   holds |-> gHolds + CountEvents(events, TRUE)]

\* The history of the interaction, kept from the samples alone: an
\* interaction starts at the first sample that shows a key, and ends at the
\* RELEASE_THRESHOLD-th empty sample in a row or at a sample that shows
\* another key, which starts the next one.  gLast holds the interaction that
\* ended at the sample just taken, if one did.
Observe(key, gap, events) ==
  IF gKey = NoKey THEN
    /\ gStray' = gStray + Len(events)
    /\ gLast' = NoInteraction
    /\ IF key = NoKey
       THEN UNCHANGED <<gKey, gEmpty, gSamples, gPure, gOnTime, gTaps, gHolds,
                        gGap, gSince>>
       ELSE /\ gKey' = key /\ gEmpty' = 0 /\ gSamples' = 1 /\ gPure' = TRUE
            /\ gGap' = 0 /\ gSince' = gap
            /\ gOnTime' = (gap = DEFAULT_POLL_INTERVAL_MS)
            /\ gTaps' = 0 /\ gHolds' = 0
  ELSE IF key = gKey THEN
    /\ gKey' = gKey /\ gEmpty' = 0 /\ gSamples' = gSamples + 1
    /\ gPure' = (gPure /\ gEmpty = 0)
    /\ gGap' = (IF gEmpty > gGap THEN gEmpty ELSE gGap)
    /\ gSince' = gSince + gap
    /\ gOnTime' = (gOnTime /\ gap = DEFAULT_POLL_INTERVAL_MS)
    /\ gTaps' = gTaps + CountEvents(events, FALSE)
    /\ gHolds' = gHolds + CountEvents(events, TRUE)
    /\ gLast' = NoInteraction
    /\ UNCHANGED gStray
  ELSE IF key = NoKey THEN
    IF gEmpty + 1 >= RELEASE_THRESHOLD
    THEN /\ gLast' = Ended("release", events)
         /\ gKey' = NoKey /\ gEmpty' = 0 /\ gSamples' = 0 /\ gPure' = TRUE
         /\ gOnTime' = TRUE /\ gTaps' = 0 /\ gHolds' = 0
         /\ gGap' = 0 /\ gSince' = 0
         /\ UNCHANGED gStray
    ELSE /\ gEmpty' = gEmpty + 1
         /\ gOnTime' = (gOnTime /\ gap = DEFAULT_POLL_INTERVAL_MS)
         /\ gTaps' = gTaps + CountEvents(events, FALSE)
         /\ gHolds' = gHolds + CountEvents(events, TRUE)
         /\ gLast' = NoInteraction
         /\ gSince' = gSince + gap
         /\ UNCHANGED <<gKey, gSamples, gPure, gStray, gGap>>
  ELSE
    /\ gLast' = Ended("replaced", events)
    /\ gKey' = key /\ gEmpty' = 0 /\ gSamples' = 1 /\ gPure' = TRUE
    /\ gOnTime' = (gap = DEFAULT_POLL_INTERVAL_MS)
    /\ gTaps' = 0 /\ gHolds' = 0
    /\ gGap' = 0 /\ gSince' = gap
    /\ UNCHANGED gStray

\* The classification of one sample: comm_read_keypad gave key, the sample
\* is classified, and the thread sleeps until the next poll, gap milliseconds
\* after this one.
KeySample(key, gap) ==
  /\ kPolls < MaxSamples
  /\ kPolls' = kPolls + 1
  /\ LET r == Classify(key) IN
     /\ last_key' = r.last
     /\ hold_event_fired' = r.fired
     /\ no_key_count' = r.count
     /\ kElapsed' = IF r.last = NoKey THEN 0 ELSE r.elapsed + gap
     /\ Observe(Shown(key), gap, r.events)

KeyPoll(key, gap) ==
  /\ KeySample(key, gap)
  /\ UNCHANGED nonKey

\* One iteration of the loop of keypad_thread_func on a sample.
NextKeys == \E key \in Keys \cup NotPressed, gap \in PollGaps : KeyPoll(key, gap)

\* ------------------------------------------------------------------------
\* The polling loop of keypad_thread_func around comm_read_keypad
\* ------------------------------------------------------------------------
InitPoller ==
  /\ pollPc = "send"
  /\ consecutive_errors = 0
  /\ chanClosed = "none"
  /\ pollCount = 0
  /\ pollsAfterClose = 0
  /\ pollEvents = 0
  /\ pollLog = 0
  /\ pollLast = "none"

\* TimeoutErrors with the timeout counted as an error.
TimeoutErrors_counted(n) == n + 1

\* HAMPOD_TIMEOUT: consecutive_errors = 0
TimeoutErrors(n) == 0

\* One direction of the channel closes and stays closed: "in" is the pipe
\* the Software reads, "out" the pipe it writes.
ChannelCloses(dir) ==
  /\ chanClosed = "none"
  /\ chanClosed' = dir
  /\ UNCHANGED <<pollPc, consecutive_errors, pollCount, pollsAfterClose,
                 pollEvents, pollLog, pollLast>>
  /\ UNCHANGED <<keyVars, nonPoller>>

\* comm_read_keypad: comm_send_packet(&request) succeeds
PollSend ==
  /\ pollPc = "send"
  /\ pollCount < MaxPolls
  /\ chanClosed # "out"
  /\ pollCount' = pollCount + 1
  /\ pollsAfterClose' = IF chanClosed # "none" THEN pollsAfterClose + 1
                        ELSE pollsAfterClose
  /\ pollPc' = "wait"
  /\ UNCHANGED <<consecutive_errors, chanClosed, pollEvents, pollLog, pollLast>>
  /\ UNCHANGED <<keyVars, nonPoller>>

\* comm_read_keypad: comm_send_packet fails on the closed pipe and
\* HAMPOD_ERROR comes back; consecutive_errors++; at the limit break, else
\* usleep(100000) and continue
PollSendFails ==
  /\ pollPc = "send"
  /\ pollCount < MaxPolls
  /\ chanClosed = "out"
  /\ pollCount' = pollCount + 1
  /\ pollsAfterClose' = pollsAfterClose + 1
  /\ consecutive_errors' = consecutive_errors + 1
  /\ pollLog' = pollLog + 2
  /\ pollLast' = "error"
  /\ pollPc' = IF consecutive_errors + 1 >= KEYPAD_ERROR_LIMIT THEN "stopped"
               ELSE "send"
  /\ UNCHANGED <<chanClosed, pollEvents>>
  /\ UNCHANGED <<keyVars, nonPoller>>

\* comm_wait_keypad_response returns a response with key: HAMPOD_OK;
\* consecutive_errors = 0 and the sample is classified
PollResponse(key, gap) ==
  /\ pollPc = "wait"
  /\ chanClosed # "in"
  /\ consecutive_errors' = 0
  /\ pollLast' = "ok"
  /\ pollEvents' = pollEvents + Len(Classify(key).events)
  /\ KeySample(key, gap)
  /\ pollPc' = "send"
  /\ UNCHANGED <<chanClosed, pollCount, pollsAfterClose, pollLog>>
  /\ UNCHANGED nonPoller

\* comm_wait_keypad_response returns HAMPOD_TIMEOUT after
\* COMM_KEYPAD_TIMEOUT_MS: LOG_ERROR in comm_read_keypad and in the loop,
\* consecutive_errors = 0; continue
PollTimeout ==
  /\ pollPc = "wait"
  /\ consecutive_errors' = TimeoutErrors(consecutive_errors)
  /\ pollLast' = "timeout"
  /\ pollLog' = pollLog + 2
  /\ pollPc' = "send"
  /\ kElapsed' = IF last_key = NoKey THEN kElapsed
                 ELSE kElapsed + COMM_KEYPAD_TIMEOUT_MS
  /\ gSince' = IF gKey = NoKey THEN gSince ELSE gSince + COMM_KEYPAD_TIMEOUT_MS
  /\ gOnTime' = (gOnTime /\ gKey = NoKey)
  /\ gLast' = NoInteraction
  /\ UNCHANGED <<last_key, hold_event_fired, no_key_count, kPolls, gKey,
                 gEmpty, gSamples, gPure, gTaps, gHolds, gStray, gGap>>
  /\ UNCHANGED <<chanClosed, pollCount, pollsAfterClose, pollEvents>>
  /\ UNCHANGED nonPoller

NextPoller ==
  \/ \E dir \in {"in", "out"} : ChannelCloses(dir)
  \/ PollSend
  \/ PollSendFails
  \/ \E key \in Keys \cup {NoKey}, gap \in {DEFAULT_POLL_INTERVAL_MS} :
       PollResponse(key, gap)
  \/ PollTimeout

\* ------------------------------------------------------------------------
\* The USB keypad HAL: hal_keypad_read, built with KEYPAD_PHONE_LAYOUT 0
\* ------------------------------------------------------------------------
\* The raw codes the keypad sends; the 0 key and the 00 key both send KEY_KP0.
KeyCodes == {"KEY_KP0", "KEY_KP5"}

\* The physical keys: the 00 key sends its code twice.
PhysicalKeys == {"0", "00", "5"}

\* static char map_keycode_to_symbol(int keycode), calculator table
map_keycode_to_symbol(keycode) ==
  IF keycode = "KEY_KP0" THEN "0"
  ELSE IF keycode = "KEY_KP5" THEN "5"
  ELSE "-"

\* One pulse of a key: a press event (value 1) and a release event (value
\* 0).  press, physical and pulse say where the events came from.
Pulse(code, at, press, physical, pulse) ==
  << [code |-> code, value |-> 1, time |-> at, press |-> press,
      physical |-> physical, pulse |-> pulse],
     [code |-> code, value |-> 0, time |-> at, press |-> press,
      physical |-> physical, pulse |-> pulse] >>

\* The events one physical press puts in the device buffer.
PressEvents(physical, at, press) ==
  IF physical = "00"
  THEN Pulse("KEY_KP0", at, press, physical, 1)
         \o Pulse("KEY_KP0", at + KP0_PULSE_GAP_MS, press, physical, 2)
  ELSE IF physical = "0" THEN Pulse("KEY_KP0", at, press, physical, 1)
  ELSE Pulse("KEY_KP5", at, press, physical, 1)

InitHalKeypad ==
  /\ hkBuf = << >>
  /\ hkNow = 0
  /\ debounce_state = [last_key |-> "none", last_time |-> 0]
  /\ hold_state = [held_key |-> "-", held_code |-> "none"]
  /\ hkOut = << >>
  /\ hkPresses = 0

\* A key is pressed and let go.
HalPress(physical) ==
  /\ hkPresses < MaxPresses
  /\ hkPresses' = hkPresses + 1
  /\ hkBuf' = hkBuf \o PressEvents(physical, hkNow, hkPresses + 1)
  /\ UNCHANGED <<hkNow, debounce_state, hold_state, hkOut>>
  /\ UNCHANGED nonHalKey

\* Time passes.
HalTick ==
  /\ hkNow + HalTickMs <= MaxHalMs
  /\ hkNow' = hkNow + HalTickMs
  /\ UNCHANGED <<hkBuf, debounce_state, hold_state, hkOut, hkPresses>>
  /\ UNCHANGED nonHalKey

\* Calculator mode: the second KEY_KP0 inside 50 ms of the first is dropped.
Suppressed(ev) ==
  /\ ev.code = "KEY_KP0"
  /\ debounce_state.last_key = "KEY_KP0"
  /\ ev.time - debounce_state.last_time < KP0_SUPPRESS_MS

\* What hal_keypad_read reports, with where it came from.
Report(ev, key) ==
  [key |-> key, raw_code |-> ev.code, at |-> hkNow, time |-> ev.time,
   press |-> ev.press, physical |-> ev.physical, pulse |-> ev.pulse]

\* KeypadEvent hal_keypad_read(void) with an event in the buffer: calculator
\* mode reads one event; a press is reported at once unless it is the
\* suppressed second KEY_KP0, a release clears the hold state.
HalReadEvent ==
  /\ KEYPAD_PHONE_LAYOUT = 0
  /\ hkBuf # << >>
  /\ Head(hkBuf).time <= hkNow
  /\ LET ev == Head(hkBuf) IN
     /\ hkBuf' = Tail(hkBuf)
     /\ IF ev.value = 1 THEN
          IF Suppressed(ev)
          THEN UNCHANGED <<debounce_state, hold_state, hkOut>>
          ELSE /\ debounce_state' = [last_key |-> ev.code, last_time |-> ev.time]
               /\ hold_state' = [held_key |-> map_keycode_to_symbol(ev.code),
                                 held_code |-> ev.code]
               /\ hkOut' = IF map_keycode_to_symbol(ev.code) # "-"
                           THEN Append(hkOut, Report(ev, map_keycode_to_symbol(ev.code)))
                           ELSE hkOut
        ELSE
          /\ hold_state' = IF ev.code = hold_state.held_code
                           THEN [held_key |-> "-", held_code |-> "none"]
                           ELSE hold_state
          /\ UNCHANGED <<debounce_state, hkOut>>
  /\ UNCHANGED <<hkNow, hkPresses>>
  /\ UNCHANGED nonHalKey

NextHalKeypad ==
  \/ \E physical \in PhysicalKeys : HalPress(physical)
  \/ HalTick
  \/ HalReadEvent

\* ------------------------------------------------------------------------
\* The playback state: hal_audio_play_file on the worker, the interrupt and
\* beep bypasses on the I/O thread (hal_audio_usb.c, audio_firmware.c)
\* ------------------------------------------------------------------------
PbThreads == {"worker", "io"}

\* Where a thread goes after hal_audio_clear_interrupt returns: the worker
\* into hal_audio_play_file, the I/O thread into hal_audio_play_beep.
AfterClear(t) == IF t = "worker" THEN "play" ELSE "beep"

InitPlayback ==
  /\ audio_playing = FALSE
  /\ pcm_state = "prepared"
  /\ pbPc = [t \in PbThreads |-> "idle"]
  /\ pbPlays = 0
  /\ pbIoOps = 0
  /\ pbChunks = 0
  /\ pbResult = "none"
  /\ pbIntrSeen = FALSE
  /\ pbAfterIntr = 0
  /\ pbDropSincePrime = FALSE
  /\ pbPrimedWithoutDrop = FALSE
  /\ pbSinkCalls = -1
  /\ pbBetweenBeeps = -1

\* One more prepare/drop call on the sink since the last beep.
SinkCall == IF pbSinkCalls >= 0 THEN pbSinkCalls + 1 ELSE pbSinkCalls

\* The worker takes a play-file request: hal_audio_clear_interrupt() first.
\* The I/O thread takes a beep packet: hal_audio_clear_interrupt() first.
PbCall(t) ==
  /\ pbPc[t] = "idle"
  /\ IF t = "worker" THEN pbPlays < MaxPlays /\ UNCHANGED pbIoOps
     ELSE pbIoOps < MaxIoOps /\ pbIoOps' = pbIoOps + 1
  /\ pbPc' = [pbPc EXCEPT ![t] = "clear"]
  /\ UNCHANGED <<audio_interrupted, tts_interrupted, audio_playing, pcm_state,
                 pbPlays, pbChunks, pbResult, pbIntrSeen, pbAfterIntr,
                 pbDropSincePrime, pbPrimedWithoutDrop, pbSinkCalls,
                 pbBetweenBeeps>>
  /\ UNCHANGED nonPlayback

\* hal_audio_clear_interrupt: if (audio_interrupted && pcm_handle != NULL)
ClearTest(t) ==
  /\ pbPc[t] = "clear"
  /\ pbPc' = [pbPc EXCEPT ![t] = IF audio_interrupted THEN "clearPrepare"
                                 ELSE "clearReset"]
  /\ UNCHANGED <<audio_interrupted, tts_interrupted, audio_playing, pcm_state,
                 pbPlays, pbIoOps, pbChunks, pbResult, pbIntrSeen, pbAfterIntr,
                 pbDropSincePrime, pbPrimedWithoutDrop, pbSinkCalls,
                 pbBetweenBeeps>>
  /\ UNCHANGED nonPlayback

\* hal_audio_clear_interrupt: snd_pcm_prepare(pcm_handle)
ClearPrepare(t) ==
  /\ pbPc[t] = "clearPrepare"
  /\ pcm_state' = "prepared"
  /\ pbPrimedWithoutDrop' = (pbPrimedWithoutDrop \/ ~pbDropSincePrime)
  /\ pbDropSincePrime' = FALSE
  /\ pbSinkCalls' = SinkCall
  /\ pbPc' = [pbPc EXCEPT ![t] = "clearReset"]
  /\ UNCHANGED <<audio_interrupted, tts_interrupted, audio_playing, pbPlays,
                 pbIoOps, pbChunks, pbResult, pbIntrSeen, pbAfterIntr,
                 pbBetweenBeeps>>
  /\ UNCHANGED nonPlayback

\* hal_audio_clear_interrupt: audio_interrupted = 0
ClearReset(t) ==
  /\ pbPc[t] = "clearReset"
  /\ audio_interrupted' = hal_audio_clear_interrupt
  /\ pbPc' = [pbPc EXCEPT ![t] = AfterClear(t)]
  /\ UNCHANGED <<tts_interrupted, audio_playing, pcm_state, pbPlays, pbIoOps,
                 pbChunks, pbResult, pbIntrSeen, pbAfterIntr, pbDropSincePrime,
                 pbPrimedWithoutDrop, pbSinkCalls, pbBetweenBeeps>>
  /\ UNCHANGED nonPlayback

\* hal_audio_play_file: audio_playing = 1; audio_interrupted = 0;
\* bytes_remaining = data_size
PlayStart ==
  /\ pbPc["worker"] = "play"
  /\ audio_playing' = TRUE
  /\ audio_interrupted' = FALSE
  /\ pbChunks' = MaxChunks
  /\ pbIntrSeen' = FALSE
  /\ pbAfterIntr' = 0
  /\ pbResult' = "none"
  /\ pbPc' = [pbPc EXCEPT !["worker"] = "test"]
  /\ UNCHANGED <<tts_interrupted, pcm_state, pbPlays, pbIoOps,
                 pbDropSincePrime, pbPrimedWithoutDrop, pbSinkCalls,
                 pbBetweenBeeps>>
  /\ UNCHANGED nonPlayback

\* while (bytes_remaining > 0 && !audio_interrupted)
PlayTest ==
  /\ pbPc["worker"] = "test"
  /\ pbPc' = [pbPc EXCEPT !["worker"] =
                IF pbChunks > 0 /\ ~audio_interrupted THEN "write" ELSE "end"]
  /\ UNCHANGED <<audio_interrupted, tts_interrupted, audio_playing, pcm_state,
                 pbPlays, pbIoOps, pbChunks, pbResult, pbIntrSeen, pbAfterIntr,
                 pbDropSincePrime, pbPrimedWithoutDrop, pbSinkCalls,
                 pbBetweenBeeps>>
  /\ UNCHANGED nonPlayback

\* fread one chunk; snd_pcm_writei(pcm_handle, chunk_buffer, ...).  On a sink
\* that was dropped and not prepared the write may fail past recovery, and
\* the loop is left.
PlayWrite ==
  /\ pbPc["worker"] = "write"
  /\ \E ok \in IF pcm_state = "setup" THEN BOOLEAN ELSE {TRUE} :
       IF ok
       THEN /\ pcm_state' = "running"
            /\ pbChunks' = pbChunks - 1
            /\ pbAfterIntr' = IF pbIntrSeen THEN pbAfterIntr + 1 ELSE pbAfterIntr
            /\ pbPc' = [pbPc EXCEPT !["worker"] = "test"]
       ELSE /\ pbPc' = [pbPc EXCEPT !["worker"] = "end"]
            /\ UNCHANGED <<pcm_state, pbChunks, pbAfterIntr>>
  /\ UNCHANGED <<audio_interrupted, tts_interrupted, audio_playing, pbPlays,
                 pbIoOps, pbResult, pbIntrSeen, pbDropSincePrime,
                 pbPrimedWithoutDrop, pbSinkCalls, pbBetweenBeeps>>
  /\ UNCHANGED nonPlayback

\* audio_playing = 0; audio_interrupted = 0; ...; return 0
PlayEnd ==
  /\ pbPc["worker"] = "end"
  /\ audio_playing' = FALSE
  /\ audio_interrupted' = FALSE
  /\ pbResult' = 0
  /\ pbPlays' = pbPlays + 1
  /\ pbPc' = [pbPc EXCEPT !["worker"] = "idle"]
  /\ UNCHANGED <<tts_interrupted, pcm_state, pbIoOps, pbChunks, pbIntrSeen,
                 pbAfterIntr, pbDropSincePrime, pbPrimedWithoutDrop,
                 pbSinkCalls, pbBetweenBeeps>>
  /\ UNCHANGED nonPlayback

\* hal_audio_interrupt: audio_interrupted = 1; snd_pcm_drop(pcm_handle)
AudioInterrupt ==
  /\ audio_interrupted' = hal_audio_interrupt
  /\ pcm_state' = "setup"
  /\ pbDropSincePrime' = TRUE
  /\ pbSinkCalls' = -1
  /\ pbIntrSeen' = (pbIntrSeen \/ pbPc["worker"] \in {"test", "write"})

\* INTERRUPT BYPASS: the I/O thread takes an interrupt packet and calls
\* hal_audio_interrupt()
IoInterruptAudio ==
  /\ pbPc["io"] = "idle"
  /\ pbIoOps < MaxIoOps
  /\ pbIoOps' = pbIoOps + 1
  /\ AudioInterrupt
  /\ pbPc' = [pbPc EXCEPT !["io"] = "ttsInterrupt"]
  /\ UNCHANGED <<tts_interrupted, audio_playing, pbPlays, pbChunks, pbResult,
                 pbAfterIntr, pbPrimedWithoutDrop, pbBetweenBeeps>>
  /\ UNCHANGED nonPlayback

\* INTERRUPT BYPASS: hal_tts_interrupt(), which sets tts_interrupted and
\* calls hal_audio_interrupt() again
IoInterruptTts ==
  /\ pbPc["io"] = "ttsInterrupt"
  /\ tts_interrupted' = hal_tts_interrupt
  /\ AudioInterrupt
  /\ pbPc' = [pbPc EXCEPT !["io"] = "idle"]
  /\ UNCHANGED <<audio_playing, pbPlays, pbIoOps, pbChunks, pbResult,
                 pbAfterIntr, pbPrimedWithoutDrop, pbBetweenBeeps>>
  /\ UNCHANGED nonPlayback

\* hal_audio_play_beep: snd_pcm_writei(pcm_handle, beep->samples, ...)
BeepWrite ==
  /\ pbPc["io"] = "beep"
  /\ pbBetweenBeeps' = pbSinkCalls
  /\ pbSinkCalls' = 0
  /\ pcm_state' = IF pcm_state = "setup" THEN pcm_state ELSE "running"
  /\ pbPc' = [pbPc EXCEPT !["io"] = "drain"]
  /\ UNCHANGED <<audio_interrupted, tts_interrupted, audio_playing, pbPlays,
                 pbIoOps, pbChunks, pbResult, pbIntrSeen, pbAfterIntr,
                 pbDropSincePrime, pbPrimedWithoutDrop>>
  /\ UNCHANGED nonPlayback

\* hal_audio_play_beep: snd_pcm_drain(pcm_handle); snd_pcm_prepare(pcm_handle)
BeepDrainPrepare ==
  /\ pbPc["io"] = "drain"
  /\ pcm_state' = "prepared"
  /\ pbDropSincePrime' = FALSE
  /\ pbSinkCalls' = SinkCall
  /\ pbPc' = [pbPc EXCEPT !["io"] = "idle"]
  /\ UNCHANGED <<audio_interrupted, tts_interrupted, audio_playing, pbPlays,
                 pbIoOps, pbChunks, pbResult, pbIntrSeen, pbAfterIntr,
                 pbPrimedWithoutDrop, pbBetweenBeeps>>
  /\ UNCHANGED nonPlayback

NextPlayback ==
  \/ \E t \in PbThreads : PbCall(t) \/ ClearTest(t) \/ ClearPrepare(t) \/ ClearReset(t)
  \/ PlayStart
  \/ PlayTest
  \/ PlayWrite
  \/ PlayEnd
  \/ IoInterruptAudio
  \/ IoInterruptTts
  \/ BeepWrite
  \/ BeepDrainPrepare

\* ------------------------------------------------------------------------
\* The speech queue: queue_push from the callers of speech_say_text,
\* speech_spell_text and speech_play_file, queue_pop from the speech thread
\* ------------------------------------------------------------------------
InitSpeech ==
  /\ spCount = 0
  /\ spRunning = TRUE
  /\ spMutex = "free"
  /\ pushPc = "idle"
  /\ pushCalls = 0
  /\ pushResult = "none"
  /\ pushWaited = FALSE
  /\ spThreadPc = "pop"
  /\ spItems = <<>>
  /\ spItem = 0
  /\ spSent = {}
  /\ spCleared = {}

\* queue_push: while (queue.count >= queue.capacity && running)
PushMustWait(count, running) == count >= SpeechCapacity /\ running

\* speech_say_text / speech_spell_text / speech_play_file: queue_push(...)
PushCall ==
  /\ pushPc = "idle"
  /\ pushCalls < MaxPushCalls
  /\ pushCalls' = pushCalls + 1
  /\ pushWaited' = FALSE
  /\ pushResult' = "none"
  /\ pushPc' = "lock"
  /\ UNCHANGED <<spCount, spRunning, spMutex, spThreadPc, spItems, spItem,
                 spSent, spCleared>>
  /\ UNCHANGED nonSpeech

\* queue_push: pthread_mutex_lock(&queue.mutex), on entry or on waking from
\* pthread_cond_timedwait
PushLock ==
  /\ pushPc = "lock"
  /\ spMutex = "free"
  /\ spMutex' = "caller"
  /\ pushPc' = "test"
  /\ UNCHANGED <<spCount, spRunning, pushCalls, pushResult, pushWaited,
                 spThreadPc, spItems, spItem, spSent, spCleared>>
  /\ UNCHANGED nonSpeech

\* queue_push: the wait loop's test; pthread_cond_timedwait releases the
\* mutex and the caller sleeps until signalled or 100 ms have passed
PushWait ==
  /\ pushPc = "test"
  /\ PushMustWait(spCount, spRunning)
  /\ spMutex' = "free"
  /\ pushWaited' = TRUE
  /\ pushPc' = "lock"
  /\ UNCHANGED <<spCount, spRunning, pushCalls, pushResult, spThreadPc,
                 spItems, spItem, spSent, spCleared>>
  /\ UNCHANGED nonSpeech

\* queue_push past the wait loop: HAMPOD_ERROR if not running or still full,
\* else the item is added, not_empty signalled, HAMPOD_OK
PushFinish ==
  /\ pushPc = "test"
  /\ ~PushMustWait(spCount, spRunning)
  /\ IF ~spRunning \/ spCount >= SpeechCapacity
     THEN /\ pushResult' = "HAMPOD_ERROR"
          /\ UNCHANGED <<spCount, spItems>>
     ELSE /\ pushResult' = "HAMPOD_OK"
          /\ spItems' = Append(spItems, pushCalls)
          /\ spCount' = spCount + 1
  /\ spMutex' = "free"
  /\ pushPc' = "idle"
  /\ UNCHANGED <<spRunning, pushCalls, pushWaited, spThreadPc, spItem, spSent,
                 spCleared>>
  /\ UNCHANGED nonSpeech

\* speech_thread_func: queue_pop takes the mutex; with an empty queue it
\* waits and tries again, else it removes the head and signals not_full
SpeechPop ==
  /\ spThreadPc = "pop"
  /\ spRunning
  /\ spMutex = "free"
  /\ spCount > 0
  /\ spItem' = Head(spItems)
  /\ spItems' = Tail(spItems)
  /\ spCount' = spCount - 1
  /\ spThreadPc' = "send"
  /\ UNCHANGED <<spRunning, spMutex, pushPc, pushCalls, pushResult, pushWaited,
                 spSent, spCleared>>
  /\ UNCHANGED nonSpeech

\* speech_thread_func: comm_send_audio(item.type, item.payload);
\* usleep(100000)
SpeechSendItem ==
  /\ spThreadPc = "send"
  /\ spSent' = spSent \cup {spItem}
  /\ spItem' = 0
  /\ spThreadPc' = IF spRunning THEN "pop" ELSE "exited"
  /\ UNCHANGED <<spCount, spRunning, spMutex, pushPc, pushCalls, pushResult,
                 pushWaited, spItems, spCleared>>
  /\ UNCHANGED nonSpeech

\* speech_shutdown: running = false
SpeechShutdown ==
  /\ spRunning
  /\ spRunning' = FALSE
  /\ spThreadPc' = IF spThreadPc = "pop" THEN "exited" ELSE spThreadPc
  /\ UNCHANGED <<spCount, spMutex, pushPc, pushCalls, pushResult, pushWaited,
                 spItems, spItem, spSent, spCleared>>
  /\ UNCHANGED nonSpeech

\* speech_clear_queue, called by the thread that queues: under the mutex,
\* head = tail = 0 and count = 0, then not_full is broadcast
SpeechClear ==
  /\ pushPc = "idle"
  /\ spMutex = "free"
  /\ spCleared' = spCleared \cup Range(spItems)
                     \cup (IF spItem # 0 THEN {spItem} ELSE {})
  /\ spItems' = <<>>
  /\ spCount' = 0
  /\ UNCHANGED <<spRunning, spMutex, pushPc, pushCalls, pushResult, pushWaited,
                 spThreadPc, spItem, spSent>>
  /\ UNCHANGED nonSpeech

NextSpeech ==
  \/ PushCall
  \/ PushLock
  \/ PushWait
  \/ PushFinish
  \/ SpeechPop
  \/ SpeechSendItem
  \/ SpeechShutdown
  \/ SpeechClear

\* ------------------------------------------------------------------------
\* The configuration, its undo history and Config Mode
\* ------------------------------------------------------------------------
\* config_init: config_set_defaults, g_history.head = 0, g_history.count = 0;
\* config_mode_init: g_state = CONFIG_MODE_OFF
InitConfig ==
  /\ g_config = [volume |-> CONFIG_DEFAULT_VOLUME]
  /\ g_history = [snapshots |-> [i \in 0..(CONFIG_UNDO_DEPTH - 1) |->
                                   [volume |-> 0]],
                  head |-> 0, count |-> 0]
  /\ g_state = "CONFIG_MODE_OFF"
  /\ g_undo_depth_on_entry = 0
  /\ cfgAtEntry = g_config
  /\ cfgChanges = 0
  /\ cfgSessions = 0
  /\ cfgLast = "init"

\* history_push: the snapshot goes to the head slot, the head advances round
\* the ring, the count grows up to CONFIG_UNDO_DEPTH
history_push(h, config) ==
  [snapshots |-> [h.snapshots EXCEPT ![h.head] = config],
   head |-> (h.head + 1) % CONFIG_UNDO_DEPTH,
   count |-> IF h.count < CONFIG_UNDO_DEPTH THEN h.count + 1 ELSE h.count]

\* history_pop on a history that is not empty: the history left
history_pop(h) ==
  [h EXCEPT !.head = (h.head - 1 + CONFIG_UNDO_DEPTH) % CONFIG_UNDO_DEPTH,
            !.count = h.count - 1]

\* config_undo: g_config = the popped snapshot; no change on an empty history
config_undo(st) ==
  IF st.history.count = 0
  THEN st
  ELSE [config |-> history_pop(st.history).snapshots[history_pop(st.history).head],
        history |-> history_pop(st.history)]

\* config_mode_exit_discard: while (current_undos > g_undo_depth_on_entry)
\* config_undo()
RECURSIVE UndoToEntry(_, _)
UndoToEntry(st, depth) ==
  IF st.history.count > depth THEN UndoToEntry(config_undo(st), depth) ELSE st

\* change_param_value for CONFIG_PARAM_VOLUME: the next volume
NextVolume(vol, increment) ==
  IF increment
  THEN (IF vol + 10 > 100 THEN 100 ELSE vol + 10)
  ELSE (IF vol - 10 < 10 THEN 10 ELSE vol - 10)

\* config_mode_enter
ConfigModeEnter ==
  /\ g_state = "CONFIG_MODE_OFF"
  /\ cfgSessions < MaxSessions
  /\ cfgSessions' = cfgSessions + 1
  /\ g_state' = "CONFIG_MODE_BROWSING"
  /\ g_undo_depth_on_entry' = g_history.count
  /\ cfgAtEntry' = g_config
  /\ cfgLast' = "enter"
  /\ UNCHANGED <<g_config, g_history, cfgChanges>>
  /\ UNCHANGED nonConfig

\* config_mode_handle_key 'C' / 'D' on the volume: config_set_volume pushes
\* g_config to the history and stores the new value
ConfigChangeVolume(increment) ==
  /\ g_state # "CONFIG_MODE_OFF"
  /\ cfgChanges < MaxChanges
  /\ cfgChanges' = cfgChanges + 1
  /\ g_history' = history_push(g_history, g_config)
  /\ g_config' = [g_config EXCEPT !.volume = NextVolume(g_config.volume, increment)]
  /\ cfgLast' = "change"
  /\ UNCHANGED <<g_state, g_undo_depth_on_entry, cfgAtEntry, cfgSessions>>
  /\ UNCHANGED nonConfig

\* config_mode_exit_save
ConfigModeExitSave ==
  /\ g_state # "CONFIG_MODE_OFF"
  /\ g_state' = "CONFIG_MODE_OFF"
  /\ cfgLast' = "save"
  /\ UNCHANGED <<g_config, g_history, g_undo_depth_on_entry, cfgAtEntry,
                 cfgChanges, cfgSessions>>
  /\ UNCHANGED nonConfig

\* config_mode_exit_discard
ConfigModeExitDiscard ==
  /\ g_state # "CONFIG_MODE_OFF"
  /\ g_state' = "CONFIG_MODE_OFF"
  /\ LET st == UndoToEntry([config |-> g_config, history |-> g_history],
                           g_undo_depth_on_entry)
     IN /\ g_config' = st.config
        /\ g_history' = st.history
  /\ cfgLast' = "discard"
  /\ UNCHANGED <<g_undo_depth_on_entry, cfgAtEntry, cfgChanges, cfgSessions>>
  /\ UNCHANGED nonConfig

NextConfig ==
  \/ ConfigModeEnter
  \/ \E increment \in BOOLEAN : ConfigChangeVolume(increment)
  \/ ConfigModeExitSave
  \/ ConfigModeExitDiscard

\* The parts that stand apart from the transport, at rest.
\* The parts added after the codec and the classifier, at rest.
InitMore ==
  InitHalKeypad /\ InitPlayback /\ InitPoller /\ InitSpeech /\ InitConfig

InitExt == InitCodecIdle /\ InitKeys /\ InitMore

\* ------------------------------------------------------------------------
\* Start-up of main(): comm_wait_ready, comm_query_audio_card_number, threads
\* ------------------------------------------------------------------------
\* The ready packet: kind Config, payload "R".
ReadyType == "CONFIG"
ReadyPayload == <<"R">>

\* The first packet the Firmware may send.
FirstTypes == {"CONFIG", "AUDIO"}
FirstPayloads == { << >>, <<"R">>, <<"R", "X">>, <<"X">> }

\* comm_wait_ready: the test made on the first packet.
ReadyAccepted(pkt) ==
  /\ pkt.type = "CONFIG"
  /\ Len(pkt.sub) > 0 /\ pkt.sub[1] = "R"

\* The state when main() calls comm_wait_ready: pipes open, no Router yet.
InitHs ==
  /\ InitFw /\ InitRq
  /\ router_running = FALSE
  /\ qMutex = "free"
  /\ cPc = [c \in Consumers |-> "idle"]
  /\ cDeadline = [c \in Consumers |-> 0]
  /\ cResult = [c \in Consumers |-> "none"]
  /\ cCallTime = [c \in Consumers |-> 0]
  /\ cReturnTime = [c \in Consumers |-> 0]
  /\ now = 0
  /\ stopPc = "idle"
  /\ caughtByStop = {}
  /\ toFirmware = << >>
  /\ fromFirmware = << >>
  /\ fwPending = NoCommPacket
  /\ packet_tag = 0
  /\ sPc = [t \in Threads |-> "idle"]
  /\ sPkt = [t \in Threads |-> NoCommPacket]
  /\ sCalls = [t \in Threads |-> 0]
  /\ rdPc = [r \in Readers |-> IF r = "main" THEN "type" ELSE "off"]
  /\ rdFields = [r \in Readers |-> << >>]
  /\ audio_queue = response_queue_init
  /\ config_queue = response_queue_init
  /\ inboundReaders = {}
  /\ sent = << >>
  /\ inboundClosed = FALSE
  /\ rdBroken = [r \in Readers |-> FALSE]
  /\ hsPc = "waitReady"
  /\ hsPacket = NoCommPacket
  /\ InitExt

\* The state once start-up is over: the ready packet was read and the Router
\* and the threads are running.
InitStarted ==
  /\ hsPc = "running"
  /\ hsPacket = [type |-> ReadyType, sub |-> ReadyPayload, tag |-> 0]

\* The Firmware writes the header of its first packet.
FwSendsFirst ==
  /\ hsPc = "waitReady"
  /\ fromFirmware = << >> /\ fwPending = NoCommPacket
  /\ rdPc["main"] = "type"
  /\ \E ty \in FirstTypes, data \in FirstPayloads :
       LET pkt == [type |-> ty, sub |-> data, tag |-> 0] IN
       /\ fromFirmware' = SubSeq(Frame(pkt), 1, 3)
       /\ fwPending' = pkt
  /\ UNCHANGED <<toFirmware, packet_tag, sPc, sPkt, sCalls, rdPc, rdFields,
                 audio_queue, config_queue, inboundReaders, sent, failVars,
                 rqVars, waitVars, fwVars, extVars, hsVars>>

\* comm_wait_ready: the checks on the packet read; on success
\* comm_start_router (queues initialised, router_running = true, thread
\* created)
HsValidate ==
  /\ hsPc = "waitReady"
  /\ rdPc["main"] = "got"
  /\ \E ty \in DecodedTypes(rdFields["main"]) :
       LET pkt == [type |-> ty, sub |-> rdFields["main"][4].sub,
                   tag |-> DecodedTag(rdFields["main"])] IN
       /\ hsPacket' = pkt
       /\ IF ReadyAccepted(pkt)
          THEN /\ hsPc' = "ready"
               /\ keypad_queue' = response_queue_init
               /\ audio_queue' = response_queue_init
               /\ config_queue' = response_queue_init
               /\ router_running' = TRUE
               /\ rdPc' = [rdPc EXCEPT !["main"] = "off", !["router"] = "type"]
          ELSE /\ hsPc' = "failed"
               /\ UNCHANGED <<keypad_queue, audio_queue, config_queue,
                              router_running>>
               /\ rdPc' = [rdPc EXCEPT !["main"] = "off"]
  /\ rdFields' = [rdFields EXCEPT !["main"] = << >>]
  /\ UNCHANGED <<toFirmware, fromFirmware, fwPending, packet_tag, sPc, sPkt,
                 sCalls, inboundReaders, sent, failVars, arrived, taken,
                 qMutex, cPc, cDeadline, cResult, cCallTime, cReturnTime, now,
                 stopPc, caughtByStop, fwVars, extVars>>

\* main: comm_query_audio_card_number -> comm_send_audio(AUDIO_TYPE_INFO, "")
MainQuery ==
  /\ hsPc = "ready"
  /\ sPc["main"] = "idle"
  /\ hsPc' = "query"
  /\ BuildPacket("main", "AUDIO", <<"q">>)
  /\ UNCHANGED <<toFirmware, fromFirmware, fwPending, packet_tag, sCalls, rdPc,
                 rdFields, audio_queue, config_queue, inboundReaders, sent,
                 failVars, rqVars, waitVars, fwVars, extVars, hsPacket>>

\* comm_query_audio_card_number: comm_wait_audio_response returns (with the
\* packet at the head of audio_queue, or without one); main goes on to
\* speech_init and keypad_init
MainQueryReturns ==
  /\ hsPc = "query"
  /\ sPc["main"] = "awaitAudio"
  /\ audio_queue' = IF audio_queue.count > 0 THEN PopRest(audio_queue)
                    ELSE audio_queue
  /\ sPc' = [sPc EXCEPT !["main"] = "idle"]
  /\ hsPc' = "running"
  /\ UNCHANGED <<toFirmware, fromFirmware, fwPending, packet_tag, sPkt, sCalls,
                 rdPc, rdFields, config_queue, inboundReaders, sent, failVars,
                 rqVars, waitVars, fwVars, extVars, hsPacket>>

\* The keypad thread, which keypad_init starts.
KeypadStep ==
  \/ KeypadRequest
  \/ KeypadGetResponse
  \/ KeypadTimeout
  \/ KeypadNoEvent
  \/ SendStep("keypad")

\* main.c from comm_wait_ready on.
NextHandshake ==
  \/ FwSendsFirst
  \/ ReadStep("main")
  \/ HsValidate
  \/ MainQuery
  \/ SendStep("main")
  \/ MainQueryReturns
  \/ FwRespondHeader
  \/ FwRespondData
  \/ ReadStep("router")
  \/ RouterRoute
  \/ KeypadStep

\* The transport after start-up.
InitTransport == InitFw /\ InitRq /\ InitWait /\ InitComm /\ InitStarted

Init == InitTransport /\ InitExt

SpecRQ == Init /\ [][NextRq]_vars

SpecWait == Init /\ [][NextWait]_vars

SpecSw == Init /\ [][NextSw]_vars

SpecCommTest == Init /\ [][NextCommTest]_vars

SpecHandshake == InitHs /\ [][NextHandshake]_vars

\* The codec's packets to write, with everything else at rest.
InitCodecSpec == InitTransport /\ InitCodec /\ InitKeys /\ InitMore

SpecCodec == InitCodecSpec /\ [][NextCodec]_vars

SpecKeys == Init /\ [][NextKeys]_vars

SpecHalKeypad == Init /\ [][NextHalKeypad]_vars

\* C23: a press of a key whose single and double symbols share one raw code
\* is reported only after its second pulse has been read, as the double
\* symbol, or after the double-pulse window has passed, as the single one.
C23_FirstPulseDeferred ==
  \A i \in 1..Len(hkOut) :
    hkOut[i].raw_code = "KEY_KP0" =>
      \/ hkOut[i].pulse = 2
      \/ hkOut[i].at - hkOut[i].time >= KP0_DISAMBIG_WINDOW_MS

SpecPlayback == Init /\ [][NextPlayback]_vars

\* C24: once hal_audio_interrupt has run while hal_audio_play_file streams,
\* the play writes at most one further chunk before it returns.
C24_StopsWithinOneChunk == pbAfterIntr <= 1

\* C25: hal_audio_clear_interrupt calls snd_pcm_prepare only when
\* snd_pcm_drop has run since the sink was last prepared.
C25_PrimeOnlyAfterDrop == ~pbPrimedWithoutDrop

\* C26: between the start of one beep and the write of the next, with no
\* interrupt between them, the sink sees no prepare and no drop call.
C26_NoPrimeBetweenBeeps == pbBetweenBeeps <= 0

\* C34: an operation that starts after a snd_pcm_drop writes its samples
\* to a sink that has been prepared again; a play that was not interrupted
\* itself, and a beep, never write to a dropped sink.
C34_PrimedBeforeWrite ==
  [][(\/ /\ pbPc["worker"] = "write"
         /\ pbPc'["worker"] # "write"
         /\ ~pbIntrSeen
      \/ /\ pbPc["io"] = "beep"
         /\ pbPc'["io"] = "drain")
     => pcm_state # "setup"]_vars

\* C35: while the write loop of a playback that was interrupted has not yet
\* left on the interrupted flag, the flag stays set: nothing the I/O thread
\* does for a beep takes the interrupt back.
C35_InterruptNotCancelled ==
  (pbIntrSeen /\ pbPc["worker"] \in {"test", "write"}) => audio_interrupted

SpecPoller == Init /\ [][NextPoller]_vars

C29_StopsAfterClosure == pollsAfterClose <= KEYPAD_ERROR_LIMIT

SpecSpeech == Init /\ [][NextSpeech]_vars

\* C30: queue_push never makes its caller wait: on a full queue it returns
\* HAMPOD_ERROR.
C30_PushNeverWaits == ~pushWaited

SpecConfig == Init /\ [][NextConfig]_vars

\* C32: when config_mode_exit_discard has returned, the configuration is
\* the one config_mode_enter found.
C32_DiscardRestores == cfgLast = "discard" => g_config = cfgAtEntry

\* C31: an item that was queued and had not been sent when
\* speech_clear_queue was called is never handed to comm_send_audio, and the
\* queue is empty when the clear returns.
C31_ClearedNeverSent ==
  /\ spCleared \cap spSent = {}
  /\ spCount = Len(spItems)

\* C18: each physical key interaction produces at most one logical event,
\* one Tap or one Hold, and no event is fired outside an interaction.
C18_OneEventPerInteraction ==
  /\ gTaps + gHolds <= 1
  /\ gLast.taps + gLast.holds <= 1
  /\ gStray = 0

C18_Witness ==
  /\ gLast.endedBy = "replaced" /\ gLast.holds = 1 /\ gLast.taps = 0
  /\ gKey # NoKey

\* C21: when a sample shows another key while a key is down, a Tap for the
\* old key is fired if and only if no Hold was fired for it, and the new key
\* starts an interaction with its own press time and hold_event_fired false.
C21_KeyChange ==
  gLast.endedBy = "replaced" =>
    /\ (gLast.taps = 1) <=> (gLast.holds = 0)
    /\ last_key = gKey /\ last_key # gLast.key
    /\ kElapsed = gSince /\ kElapsed \in PollGaps
    /\ hold_event_fired = FALSE
    /\ no_key_count = 0

C21_Witness ==
  /\ gLast.endedBy = "replaced" /\ gLast.key = "5" /\ gLast.taps = 1
  /\ last_key = "7" /\ hold_event_fired = FALSE

\* C22: while fewer than RELEASE_THRESHOLD empty samples in a row have been
\* seen the interaction goes on: the classifier still holds the key, no Tap
\* has been fired for it, and the press time is the time of its first sample.
C22_GapDoesNotEnd ==
  gKey # NoKey =>
    /\ last_key = gKey
    /\ no_key_count = gEmpty
    /\ gTaps = 0
    /\ kElapsed = gSince

C22_Witness ==
  /\ gKey = "5" /\ gEmpty = 0 /\ gGap = RELEASE_THRESHOLD - 1
  /\ last_key = "5" /\ gTaps = 0 /\ kElapsed = gSince

\* C19: a key seen in consecutive samples for at least the hold threshold
\* and then followed by the empty samples of the release debounce produces
\* exactly one Hold and no Tap.
C19_LongPressIsOneHold ==
  (/\ gLast.endedBy = "release" /\ gLast.pure
   /\ (gLast.samples - 1) * DEFAULT_POLL_INTERVAL_MS >= DEFAULT_HOLD_THRESHOLD_MS)
    => (gLast.holds = 1 /\ gLast.taps = 0)

C19_Witness ==
  /\ gLast.endedBy = "release" /\ gLast.pure /\ gLast.onTime
  /\ gLast.key = "5" /\ gLast.samples = 12
  /\ gLast.holds = 1 /\ gLast.taps = 0

\* C20: a key seen in 3 consecutive samples 50 ms apart and then followed by
\* 6 empty samples produces exactly one Tap and no Hold.
C20_ShortPressIsOneTap ==
  (/\ gLast.endedBy = "release" /\ gLast.pure /\ gLast.onTime
   /\ gLast.samples = 3)
    => (gLast.taps = 1 /\ gLast.holds = 0)

C20_Witness ==
  /\ gLast.endedBy = "release" /\ gLast.pure /\ gLast.onTime
  /\ gLast.key = "5" /\ gLast.samples = 3
  /\ gLast.taps = 1 /\ gLast.holds = 0

\* C39: a key seen in consecutive samples 50 ms apart, whose last sample is
\* less than the hold threshold after its first, and then released, produces
\* a Tap and no Hold: the empty samples of the release debounce do not count
\* toward the threshold.
C39_HoldNeedsObservedSpan ==
  (/\ gLast.endedBy = "release" /\ gLast.pure /\ gLast.onTime
   /\ (gLast.samples - 1) * DEFAULT_POLL_INTERVAL_MS < DEFAULT_HOLD_THRESHOLD_MS)
    => (gLast.holds = 0 /\ gLast.taps = 1)

\* C16: a reader that reads a frame whose header claims a length above 256
\* reports OversizedPayload and stores no more than 256 payload bytes.
C16_OversizedRejected ==
  (cdPhase = "read" /\ cdPacket.len > COMM_MAX_DATA_LEN) =>
     /\ cdResult.status = "OversizedPayload"
     /\ cdResult.stored <= COMM_MAX_DATA_LEN

\* C17: what comm_read_packet reads from the bytes comm_send_packet wrote
\* for a packet of length at most 256 is that packet: same kind, length,
\* tag and payload.
C17_RoundTrip ==
  (cdPhase = "read" /\ cdReader = "comm_read_packet"
     /\ cdPacket.len <= COMM_MAX_DATA_LEN) =>
     /\ cdResult.status = "OK"
     /\ cdResult.type = cdPacket.type
     /\ cdResult.len = cdPacket.len
     /\ cdResult.tag = cdPacket.tag
     /\ cdResult.data = cdPacket.data

C17_Witness ==
  /\ cdPhase = "read" /\ cdReader = "comm_read_packet"
  /\ cdPacket.len = COMM_MAX_DATA_LEN
  /\ cdPacket.tag = 256
  /\ cdPacket.type = 3
  /\ cdResult.status = "OK"

\* C38: the response comm_read_keypad hands back carries the tag of the
\* request that call sent.
C38_ResponseMatchesRequest ==
  sPc["keypad"] = "event" => taken[Len(taken)] = sPkt["keypad"].tag

\* C15: no request is written to the Firmware before the first packet was
\* read and found to be exactly the ready packet: kind Config, payload "R".
C15_NoRequestBeforeReady ==
  (toFirmware # << >> \/ sent # << >>) =>
     /\ hsPacket.type = ReadyType
     /\ hsPacket.sub = ReadyPayload

\* The Router thread is scheduled: it is never left for ever at a step it
\* can take.
SpecRouter == Init /\ [][NextRouter]_vars /\ WF_vars(RouterStep)

\* C12: a read failure is retried a bounded number of times and then the
\* Router's loop ends: once the pipe is closed for good, the Router
\* eventually leaves its loop.
C12_RouterGivesUp == [](inboundClosed => <>(rdPc["router"] = "exited"))

\* C40: once comm_stop_router has cleared router_running, the Router
\* thread eventually leaves its loop, so that the pthread_join returns.
C40_StopTerminates == [](~router_running => <>(rdPc["router"] = "exited"))

\* C13: a reader whose decode failed after it had consumed part of a frame
\* issues no further read on the pipe.
C13_NoReadAfterBrokenFrame ==
  \A r \in Readers :
    rdBroken[r] => rdPc[r] \notin {"type", "len", "tag", "data"}

\* Threads between the first and the last write() of comm_send_packet.
MidSend == {t \in Threads : sPc[t] \in {"len", "tag", "data"}}

\* C7: while the Router runs, every read of the inbound pipe is the Router's.
C7_RouterIsOnlyReader == inboundReaders \subseteq {"router"}

\* The requests of kind k that have been sent and whose response no caller
\* has consumed. Only comm_read_keypad consumes responses; nothing in the
\* keypad and speech threads consumes an AUDIO response.
InFlight(k) ==
  Cardinality({i \in 1..Len(sent) : sent[i].type = k})
    - (IF k = "KEYPAD" THEN Len(taken) ELSE 0)

\* C11: at most one request of each packet kind is in flight (sent, and its
\* response not yet consumed) at any time.
C11_OneInFlightPerKind ==
  \A k \in {"KEYPAD", "AUDIO"} : InFlight(k) <= 1

\* C8: at most one thread is inside a packet send on the pipe to the
\* Firmware at any time.
C8_OneSenderAtATime == Cardinality(MidSend) <= 1

\* C9: a call that waits with timeout T returns no later than T after it
\* was made.
C9_ReturnsWithinTimeout ==
  \A c \in Consumers :
    cPc[c] = "done" => cReturnTime[c] - cCallTime[c] <= TimeoutTicks

\* C10: a caller that was inside the wait when comm_stop_router woke the
\* waiters is released with HAMPOD_ERROR (or with a packet, if one was
\* queued), not left to sit out its timeout.
C10_WaiterReleasedWithError ==
  \A c \in caughtByStop :
    cPc[c] = "done" => cResult[c] \in {"ERROR", "OK"}

\* ------------------------------------------------------------------------
\* The Firmware audio module
\* ------------------------------------------------------------------------
\* One step of the worker loop.
WorkerStep ==
  \/ WorkerLockAvailable
  \/ WorkerLockQueue
  \/ WorkerQueueEmpty
  \/ WorkerDequeue
  \/ WorkerDispatchSpeak
  \/ WorkerSpeakReturns
  \/ WorkerDispatchUnrecognized
  \/ WorkerWriteHeader
  \/ WorkerWriteData

NextFw ==
  \/ IoLoopTop
  \/ IoLockAvailable
  \/ IoReadPacket
  \/ IoReadFails
  \/ IoInterruptHal
  \/ IoFlushQueue
  \/ IoInterruptAckHeader
  \/ IoInterruptAckData
  \/ IoBeep
  \/ IoBeepAckHeader
  \/ IoBeepAckData
  \/ IoEnqueue
  \/ WorkerLockAvailable
  \/ WorkerLockQueue
  \/ WorkerQueueEmpty
  \/ WorkerDequeue
  \/ WorkerDispatchSpeak
  \/ WorkerSpeakReturns
  \/ WorkerDispatchUnrecognized
  \/ WorkerWriteHeader
  \/ WorkerWriteData

SpecFw == Init /\ [][NextFw]_vars

\* ------------------------------------------------------------------------
\* Properties of the Firmware audio module
\* ------------------------------------------------------------------------
\* The chunks one role wrote to the output pipe, in order.
Written(role, part) ==
  SelectSeq(outPipe, LAMBDA c : c.by = role /\ c.part = part)

WorkerResponseTags == TagSeq(Written("worker", "hdr"))

PoppedTags == Tags(popped)

ResponseStarted(r) == r \in Tags(Written("worker", "hdr"))

AckStarted(t) == t \in Tags(Written("io", "hdr"))

\* C1: when an interrupt packet is read while requests are waiting in the
\* queue, the acknowledgment of the interrupt is written before the response
\* of any of the requests that were waiting.
C1_AckBeforeQueuedResponses ==
  \A i \in 1..Len(pendingAtIntr) :
    \A r \in pendingAtIntr[i].pending :
      ResponseStarted(r) => AckStarted(pendingAtIntr[i].intr)

AckedInterrupts ==
  {outPipe[i].tag : i \in {j \in 1..Len(outPipe) :
      /\ outPipe[j].by = "io"
      /\ outPipe[j].part = "data"
      /\ \E k \in 1..Len(pendingAtIntr) : pendingAtIntr[k].intr = outPipe[j].tag}}

\* C33: once the acknowledgment of an interrupt is written, the worker
\* starts no playback of a request that was read before that interrupt.
C33_NoStaleAudioAfterAck ==
  [][\A t \in dispatched' \ dispatched :
       \A i \in AckedInterrupts : t > i]_vars

\* C36: in the byte stream of the output pipe the header of a response is
\* followed at once by the payload of the same response.
C36_FramesContiguous ==
  \A i \in 1..(Len(outPipe) - 1) :
    outPipe[i].part = "hdr" =>
      /\ outPipe[i + 1].part = "data"
      /\ outPipe[i + 1].by = outPipe[i].by
      /\ outPipe[i + 1].tag = outPipe[i].tag

\* C37: the I/O thread is never left waiting for the queue-availability
\* lock while it holds that lock itself, a wait that ends neither its own
\* reading nor the worker's popping.
C37_IoNeverWaitsOnItself ==
  ~(ioPc = "lockAvail" /\ audio_queue_available = "io")

\* C14: once the I/O thread's loop has ended on a read failure, the worker
\* is not left blocked: it can take its next step.
C14_WorkerNotLeftBlocked == ioPc = "exited" => ENABLED WorkerStep

C3_ResponsesInPushOrder ==
  IsPrefix(WorkerResponseTags, SelectSeq(pushed, LAMBDA r : r \notin flushed))

C3_Witness ==
  /\ flushed = {}
  /\ Len(WorkerResponseTags) >= 2
  /\ Len(pushed) = MaxPackets

\* C4: the worker writes exactly one response (header and data) for each
\* request it popped, with that request's tag, and a request it does not
\* recognise is answered with the status -1.
C4_OneResponsePerRequest ==
  LET H == Written("worker", "hdr")
      D == Written("worker", "data")
      busyH == wPc \in {"dispatch", "speak", "writeHdr"}
      busyD == wPc \in {"dispatch", "speak", "writeHdr", "writeData"}
  IN /\ Len(H) = IF busyH THEN Len(popped) - 1 ELSE Len(popped)
     /\ Len(D) = IF busyD THEN Len(popped) - 1 ELSE Len(popped)
     /\ \A j \in 1..Len(H) : H[j].tag = popped[j].tag
     /\ \A j \in 1..Len(D) :
          /\ D[j].tag = popped[j].tag
          /\ popped[j].sub # "d" => D[j].status = -1

C4_Witness ==
  /\ wPc = "lockAvail"
  /\ \E j \in 1..Len(popped) : popped[j].sub = "x"
  /\ \E c \in Range(Written("worker", "data")) : c.status = -1
  /\ \E j \in 1..Len(popped) : popped[j].sub = "d"

\* C5: the queue never holds more than its capacity; a normal request read
\* by the I/O thread is pushed (it waits at the push while the queue is full)
\* and a pushed request leaves the queue only by the worker's pop or by an
\* interrupt flush.
C5_Pushed ==
  /\ Len(queue) <= QueueCapacity
  /\ received = Range(pushed) \cup (IF ioPc = "enqueue" THEN {ioPkt.tag} ELSE {})
  /\ Range(pushed) = Tags(queue) \cup PoppedTags \cup flushed
  /\ Tags(queue) \cap PoppedTags = {}
  /\ Tags(queue) \cap flushed = {}

C6_MostRecentKept ==
  /\ keypad_queue.count <= COMM_RESPONSE_QUEUE_SIZE
  /\ keypad_queue.count <= Len(arrived)
  /\ Contents(keypad_queue) = LastN(arrived, keypad_queue.count)
  /\ (taken = << >> /\ Len(arrived) > COMM_RESPONSE_QUEUE_SIZE)
       => keypad_queue.count = COMM_RESPONSE_QUEUE_SIZE

C6_Witness ==
  /\ taken = << >>
  /\ Len(arrived) > COMM_RESPONSE_QUEUE_SIZE + 1
  /\ Contents(keypad_queue)[1] = Len(arrived) - COMM_RESPONSE_QUEUE_SIZE + 1

====
